---- MODULE Spec2Model ----
(***************************************************************************)
(* Model of the consensus service-client event dispatcher                  *)
(* (fullService.serviceClientWorker, go/consensus/tendermint/full/         *)
(* services.go): one dispatch loop selecting over four fixed channels      *)
(* (context, new blocks, new queries, commands) and one buffer per         *)
(* subscribed query, each buffer fed by a forwarding goroutine.            *)
(***************************************************************************)
EXTENDS Integers, Sequences, FiniteSets, TLC

(* ------------------------------------------------------------------ *)
(* Bounds of the model                                                   *)
(* ------------------------------------------------------------------ *)
\* Number of things the environment does in one run: blocks committed, queries
\* registered, commands sent, events published, feeds closed, subscriptions
\* and context cancelled.
MaxInputs == 5
\* How many inputs the environment makes in the runs checked under fair
\* scheduling of the goroutines.
MaxFairInputs == 4

(* ------------------------------------------------------------------ *)
(* Data                                                                  *)
(* ------------------------------------------------------------------ *)
\* sd.EventType() of the modelled service client; the engine's tagged events
\* have the types "X" and "Y" and the attribute values "a" and "b".
EventType == "X"

\* A tagged engine event (tmabcitypes.Event): a type and one attribute value.
TmEv(t, v) == [type |-> t, val |-> v]

\* A query (tmpubsub.Query): one condition "<type>.key = '<val>'".
Queries == {TmEv("X", "a"), TmEv("X", "b"), TmEv("Y", "a")}
NoQuery == [type |-> "none", val |-> "none"]

\* query.Matches([]tmabcitypes.Event{tmEv}): the event carries the composite
\* key of the query's condition with the value the condition asks for.
Matches(query, tmEv) == query.type = tmEv.type /\ query.val = tmEv.val

\* Transaction bytes; NoTx is the nil tmtypes.Tx.
NoTx == "nil"
Txs == {"tx1"}
Commands == {"cmd1"}

\* api.ServiceEvent as pushed by the forwarding goroutine.
BlockEvent(h, beginEvs, endEvs) ==
    [kind |-> "Block", height |-> h, tx |-> NoTx, begin |-> beginEvs, end |-> endEvs, events |-> <<>>]
TxEvent(h, tx, evs) ==
    [kind |-> "Tx", height |-> h, tx |-> tx, begin |-> <<>>, end |-> <<>>, events |-> evs]
\* Engine event data that is neither a new block header nor a tx.
OtherEvent(h) ==
    [kind |-> "Other", height |-> h, tx |-> NoTx, begin |-> <<>>, end |-> <<>>, events |-> <<>>]
NoEvent ==
    [kind |-> "None", height |-> 0, tx |-> NoTx, begin |-> <<>>, end |-> <<>>, events |-> <<>>]

\* Event lists the engine attaches to the txs it publishes, and the pairs of
\* begin-block and end-block event lists it attaches to the blocks.
EvLists ==
    { <<>>,
      <<TmEv("Y", "a"), TmEv("X", "a"), TmEv("X", "b"), TmEv("X", "a")>> }
BlockLists ==
    { <<<<TmEv("X", "a"), TmEv("Y", "a")>>, <<TmEv("X", "b"), TmEv("X", "a")>>>> }

\* What the engine can publish on a subscription at height h.
EngineEvents(h) ==
    { BlockEvent(h, p[1], p[2]) : p \in BlockLists }
        \cup { TxEvent(h, tx, evs) : tx \in Txs, evs \in EvLists }
        \cup { OtherEvent(h) }

(* ------------------------------------------------------------------ *)
(* Channels and select cases                                             *)
(* ------------------------------------------------------------------ *)
Chan(kind, id) == [kind |-> kind, id |-> id]
NilChan == Chan("nil", 0)
CtxDoneChan == Chan("ctx", 0)
NewBlockChan == Chan("blocks", 0)
QueriesChan == Chan("queries", 0)
CommandsChan == Chan("commands", 0)
BufferChan(k) == Chan("buf", k)

indexCtx == 0
indexNewBlock == 1
indexQueries == 2
indexCommands == 3

\* append(s, x) on a zero-based Go slice, kept as a function on 0..len-1.
SliceLen(s) == Cardinality(DOMAIN s)
SliceAppend(s, x) ==
    [i \in 0..SliceLen(s) |-> IF i < SliceLen(s) THEN s[i] ELSE x]
EmptySlice == [i \in {} |-> NilChan]

VARIABLES
    pc,            \* worker: "start", "running", "stopped"
    sdPresent,     \* svc.ServiceDescriptor() /= nil
    ctxDone,       \* the outer context is cancelled
    cases,         \* []reflect.SelectCase, as the channel of each case
    queries,       \* []tmpubsub.Query, parallel to cases
    height,        \* last height seen by the worker
    chainHeight,   \* engine: height of the latest block
    blockCh,       \* pending block notifications (blocks, by header height)
    queryCh,       \* pending query registrations
    cmdCh,         \* pending command requests
    closedFeeds,   \* the fixed feeds that have been closed
    inputsLeft,    \* how many more inputs the environment may make
    subs,          \* engine subscriptions with their forwarding goroutines
    last,          \* history: what the latest loop iteration did
    blockSeen,     \* history: a block notification has been handled
    lastBlockHeight \* history: the height given to the latest DeliverBlock

\* State of package signature (services.go, from "package signature" on).
VARIABLES
    testPublicKeys,         \* sync.Map of registered test keys, as a set
    blacklistedPublicKeys,  \* sync.Map of blacklisted keys, as a set
    registryCalls,          \* history: the registry calls made, in order
    pemFile,                \* the file on disk that LoadPEM is given
    sigRet                  \* history: the latest call and what it returned

\* State of package bundle (bundle.go).
VARIABLES
    bnd,                    \* the Bundle: Manifest and Data
    bundleFile,             \* the archive file on disk
    bundleRet               \* history: the latest call and what it returned

sigVars == <<testPublicKeys, blacklistedPublicKeys, registryCalls, pemFile, sigRet>>
bundleVars == <<bnd, bundleFile, bundleRet>>
libVars == <<sigVars, bundleVars>>
serviceVars == <<pc, sdPresent, ctxDone, cases, queries, height, chainHeight,
                 blockCh, queryCh, cmdCh, closedFeeds, inputsLeft, subs,
                 last, blockSeen, lastBlockHeight>>

vars == <<serviceVars, libVars>>

envVars == <<chainHeight, blockCh, queryCh, cmdCh, closedFeeds, inputsLeft>>
workerVars == <<pc, cases, queries, height, last, blockSeen, lastBlockHeight>>


(* ------------------------------------------------------------------ *)
(* History records                                                       *)
(* ------------------------------------------------------------------ *)
NoTmEv == [type |-> "none", val |-> "none"]
\* One call of the service client's delivery contract, with its result.
\* idx is the position of a delivered event in its batch (&tmEvents[idx]).
Call(op, h, tx, idx, tmEv, arg, err) ==
    [op |-> op, height |-> h, tx |-> tx, idx |-> idx, ev |-> tmEv, arg |-> arg,
     err |-> err]
\* What one iteration of the loop did: the chosen case, whether the receive
\* reported a closed channel, the value received, the query of a registration
\* or of the chosen case, the result of subscribing, and the calls made.
Iteration(chosen, closed, item, query, res, calls) ==
    [chosen |-> chosen, closed |-> closed, item |-> item,
     query |-> query, subres |-> res, calls |-> calls]
NoItem == [seq |-> 0, ev |-> NoEvent]
NoIteration == Iteration(-1, FALSE, NoItem, NoQuery, "none", <<>>)

(* ------------------------------------------------------------------ *)
(* Subscriptions and their forwarding goroutines                         *)
(* ------------------------------------------------------------------ *)
\* A fresh subscription for query: the goroutine waits in its select, the
\* infinite buffer is empty and open.
NewSub(query) ==
    [query |-> query, canceled |-> FALSE, task |-> "select", held |-> NoEvent,
     buffer |-> <<>>, bufClosed |-> FALSE, unsubscribed |-> FALSE,
     sent |-> 0, taken |-> 0, wanted |-> 0, delivered |-> 0, closedWith |-> 0]

(* ------------------------------------------------------------------ *)
(* Initial state                                                         *)
(* ------------------------------------------------------------------ *)
\* No call of package signature has been made: both registries are empty and
\* the key file does not exist.
NoFile == [exists |-> FALSE, type |-> "none", bytes |-> <<>>]
NoCall == [op |-> "none"]
SigIdle ==
    /\ testPublicKeys = {}
    /\ blacklistedPublicKeys = {}
    /\ registryCalls = <<>>
    /\ pemFile = NoFile
    /\ sigRet = NoCall

\* No bundle is held and no archive is on disk.
NoBundle == [present |-> FALSE]
NoArchive == [exists |-> FALSE, zip |-> FALSE, entries |-> <<>>]
BundleIdle ==
    /\ bnd = NoBundle
    /\ bundleFile = NoArchive
    /\ bundleRet = NoCall

InitWith(n) ==
    /\ pc = "start"
    /\ sdPresent \in BOOLEAN
    /\ ctxDone = FALSE
    /\ cases = EmptySlice
    /\ queries = EmptySlice
    /\ height = 0
    /\ chainHeight = 0
    /\ blockCh = <<>>
    /\ queryCh = <<>>
    /\ cmdCh = <<>>
    /\ closedFeeds = {}
    /\ inputsLeft = n
    /\ subs = <<>>
    /\ last = NoIteration
    /\ blockSeen = FALSE
    /\ lastBlockHeight = 0
    /\ SigIdle
    /\ BundleIdle

Init == InitWith(MaxInputs)

(* ------------------------------------------------------------------ *)
(* Environment: context, engine, service client                          *)
(* ------------------------------------------------------------------ *)
\* The outer context is cancelled.
CtxCancel ==
    /\ inputsLeft > 0
    /\ ~ctxDone
    /\ ctxDone' = TRUE
    /\ inputsLeft' = inputsLeft - 1
    /\ UNCHANGED <<workerVars, sdPresent, libVars, chainHeight, blockCh, queryCh, cmdCh,
                   closedFeeds, subs>>

\* The engine commits a block; watchers of new blocks are notified.
EngineNewBlock ==
    /\ inputsLeft > 0
    /\ chainHeight' = chainHeight + 1
    /\ blockCh' = IF pc = "running" /\ "blocks" \notin closedFeeds
                  THEN Append(blockCh, [height |-> chainHeight + 1])
                  ELSE blockCh
    /\ inputsLeft' = inputsLeft - 1
    /\ UNCHANGED <<workerVars, sdPresent, libVars, ctxDone, queryCh, cmdCh, closedFeeds, subs>>

\* The service client registers a query on sd.Queries().
RegisterQuery ==
    /\ inputsLeft > 0
    /\ "queries" \notin closedFeeds
    /\ \E q \in Queries : queryCh' = Append(queryCh, q)
    /\ inputsLeft' = inputsLeft - 1
    /\ UNCHANGED <<workerVars, sdPresent, libVars, ctxDone, chainHeight, blockCh, cmdCh,
                   closedFeeds, subs>>

\* The service client sends a command on sd.Commands().
SendCommand ==
    /\ inputsLeft > 0
    /\ "commands" \notin closedFeeds
    /\ \E c \in Commands : cmdCh' = Append(cmdCh, c)
    /\ inputsLeft' = inputsLeft - 1
    /\ UNCHANGED <<workerVars, sdPresent, libVars, ctxDone, chainHeight, blockCh, queryCh,
                   closedFeeds, subs>>

\* The owner of one of the fixed feeds closes it.
CloseFeed ==
    /\ inputsLeft > 0
    /\ \E f \in {"blocks", "queries", "commands"} \ closedFeeds :
           closedFeeds' = closedFeeds \cup {f}
    /\ inputsLeft' = inputsLeft - 1
    /\ UNCHANGED <<workerVars, sdPresent, libVars, ctxDone, chainHeight, blockCh, queryCh,
                   cmdCh, subs>>

\* The engine cancels subscription k (an unsubscribe, or the engine stopping).
EngineCancel ==
    /\ inputsLeft > 0
    /\ \E k \in DOMAIN subs :
           /\ ~subs[k].canceled
           /\ subs' = [subs EXCEPT ![k].canceled = TRUE]
    /\ inputsLeft' = inputsLeft - 1
    /\ UNCHANGED <<workerVars, sdPresent, libVars, ctxDone, chainHeight, blockCh, queryCh,
                   cmdCh, closedFeeds>>

(* ------------------------------------------------------------------ *)
(* Forwarding goroutine of subscription k                                *)
(* ------------------------------------------------------------------ *)
\* Variant: the goroutine also returns when the outer context is done.
TaskMayReturnOnCtx(sub, done) == sub.canceled \/ done

\* Variant: the goroutine never takes the cancellation case.
TaskMayReturnNever(sub, done) == FALSE

\* Whether the goroutine's select may take the branch that returns.
TaskMayReturn(sub, done) == sub.canceled

\* Variant: the goroutine forwards block-header events only.
ForwardedBlockOnly(ev) == ev.kind = "Block"

\* Whether the engine event data is one the goroutine forwards.
Forwarded(ev) == ev.kind \in {"Block", "Tx"}

\* case v := <-sub.Out(): the engine hands the goroutine an event published
\* at the current height; other event data is dropped on the spot.  sent
\* numbers the block-header and tx events the engine emitted on the
\* subscription.
TaskRecv ==
    /\ inputsLeft > 0
    /\ chainHeight >= 1
    /\ \E k \in DOMAIN subs :
           /\ subs[k].task = "select"
           /\ ~subs[k].canceled
           /\ \E ev \in EngineEvents(chainHeight) :
                  LET emitted == IF ev.kind \in {"Block", "Tx"} THEN 1 ELSE 0
                  IN  subs' = IF Forwarded(ev)
                              THEN [subs EXCEPT ![k].task = "push",
                                                ![k].held = ev,
                                                ![k].sent = @ + emitted]
                              ELSE [subs EXCEPT ![k].sent = @ + emitted]
    /\ inputsLeft' = inputsLeft - 1
    /\ UNCHANGED <<workerVars, sdPresent, libVars, ctxDone, chainHeight, blockCh, queryCh,
                   cmdCh, closedFeeds>>

\* Variant: the buffer is a channel without capacity, which takes a value only
\* while it holds none.
CanPushUnbuffered(buffer) == Len(buffer) = 0

\* buffer := channels.NewInfiniteChannel(): the buffer takes a value whatever
\* it already holds.
CanPush(buffer) == TRUE

\* buffer.In() <- &api.ServiceEvent{...} of the goroutine of subscription k.
TaskPushOf(k) ==
    /\ k \in DOMAIN subs
    /\ subs[k].task = "push"
    /\ CanPush(subs[k].buffer)
    /\ subs' = [subs EXCEPT ![k].task = "select", ![k].held = NoEvent,
                            ![k].buffer = Append(@, [seq |-> subs[k].sent,
                                                      ev |-> subs[k].held])]
    /\ UNCHANGED <<workerVars, sdPresent, libVars, ctxDone, envVars>>

TaskPush == \E k \in DOMAIN subs : TaskPushOf(k)

\* case <-sub.Canceled(): return; the deferred buffer.Close() runs first.
TaskReturnOf(k) ==
    /\ k \in DOMAIN subs
    /\ subs[k].task = "select"
    /\ TaskMayReturn(subs[k], ctxDone)
    /\ subs' = [subs EXCEPT ![k].task = "unsubscribe", ![k].bufClosed = TRUE,
                            ![k].closedWith = Len(subs[k].buffer)]
    /\ UNCHANGED <<workerVars, sdPresent, libVars, ctxDone, envVars>>

TaskReturn == \E k \in DOMAIN subs : TaskReturnOf(k)

\* The deferred EventBus().Unsubscribe(ctx, ...) call; the goroutine ends.
TaskUnsubscribeOf(k) ==
    /\ k \in DOMAIN subs
    /\ subs[k].task = "unsubscribe"
    /\ subs' = [subs EXCEPT ![k].task = "ended", ![k].unsubscribed = TRUE]
    /\ UNCHANGED <<workerVars, sdPresent, libVars, ctxDone, envVars>>

TaskUnsubscribe == \E k \in DOMAIN subs : TaskUnsubscribeOf(k)

(* ------------------------------------------------------------------ *)
(* reflect.Select over the cases                                         *)
(* ------------------------------------------------------------------ *)
\* The queue behind a channel.
Pending(ch) ==
    CASE ch.kind = "blocks" -> blockCh
      [] ch.kind = "queries" -> queryCh
      [] ch.kind = "commands" -> cmdCh
      [] ch.kind = "buf" -> subs[ch.id].buffer
      [] OTHER -> <<>>

\* A receive on ch can complete with a value (recvOk = true).
HasValue(ch) == Pending(ch) /= <<>>

\* Variant: a closed buffer reports its closure while it still holds values.
IsClosedEarly(ch) ==
    CASE ch.kind = "ctx" -> ctxDone
      [] ch.kind \in {"blocks", "queries", "commands"} ->
             ch.kind \in closedFeeds /\ Pending(ch) = <<>>
      [] ch.kind = "buf" -> subs[ch.id].bufClosed
      [] OTHER -> FALSE

\* A receive on ch can complete because ch is closed and drained
\* (recvOk = false). A nil channel is never ready.
IsClosed(ch) ==
    CASE ch.kind = "ctx" -> ctxDone
      [] ch.kind \in {"blocks", "queries", "commands"} ->
             ch.kind \in closedFeeds /\ Pending(ch) = <<>>
      [] ch.kind = "buf" -> subs[ch.id].bufClosed /\ subs[ch.id].buffer = <<>>
      [] OTHER -> FALSE


(* ------------------------------------------------------------------ *)
(* Dispatch loop (serviceClientWorker)                                   *)
(* ------------------------------------------------------------------ *)
\* Variant: the commands case starts with the real command source.
InitialCommandsChanOpen == CommandsChan

\* The channel the commands case starts with.
InitialCommandsChan == NilChan

\* The four fixed cases, in index order.
InitialCases ==
    [i \in 0..3 |->
        CASE i = indexCtx -> CtxDoneChan
          [] i = indexNewBlock -> NewBlockChan
          [] i = indexQueries -> QueriesChan
          [] OTHER -> InitialCommandsChan]
InitialQueries == [i \in 0..3 |-> NoQuery]

\* sd == nil: the worker returns; otherwise it sets up the fixed cases.
Start ==
    /\ pc = "start"
    /\ IF sdPresent
       THEN /\ pc' = "running"
            /\ cases' = InitialCases
            /\ queries' = InitialQueries
       ELSE /\ pc' = "stopped"
            /\ UNCHANGED <<cases, queries>>
    /\ UNCHANGED <<sdPresent, libVars, ctxDone, height, envVars, subs, last,
                   blockSeen,
                   lastBlockHeight>>

\* Variant: the case of a closed channel is removed from the slice.
RetireCaseRemove(cs, chosen) ==
    [i \in 0..(SliceLen(cs) - 2) |-> IF i < chosen THEN cs[i] ELSE cs[i + 1]]

\* Variant: the case of a closed channel keeps its channel.
RetireCaseKeep(cs, chosen) == cs

\* cases[chosen].Chan = reflect.ValueOf(nil)
RetireCase(cs, chosen) == [cs EXCEPT ![chosen] = NilChan]

\* Variant: the closed context channel is retired like any other closed
\* channel and the loop goes on.
SelectCtxContinues ==
    /\ pc = "running"
    /\ IsClosed(cases[indexCtx])
    /\ cases' = RetireCase(cases, indexCtx)
    /\ last' = Iteration(indexCtx, TRUE, NoItem, NoQuery, "none", <<>>)
    /\ UNCHANGED <<pc, sdPresent, libVars, ctxDone, queries, height, envVars, subs, blockSeen,
                   lastBlockHeight>>

\* Variant: on return the worker cancels every subscription it opened.
SelectCtxReleasing ==
    /\ pc = "running"
    /\ IsClosed(cases[indexCtx])
    /\ cases' = RetireCase(cases, indexCtx)
    /\ pc' = "stopped"
    /\ closedFeeds' = closedFeeds \cup {"blocks"}
    /\ subs' = [k \in DOMAIN subs |-> [subs[k] EXCEPT !.canceled = TRUE]]
    /\ last' = Iteration(indexCtx, TRUE, NoItem, NoQuery, "none", <<>>)
    /\ UNCHANGED <<sdPresent, libVars, ctxDone, queries, height, chainHeight, blockCh,
                   queryCh, cmdCh, inputsLeft, blockSeen,
                   lastBlockHeight>>

\* chosen == indexCtx: the context's Done channel is closed; return. The
\* deferred newBlockSub.Close() ends the block feed.
SelectCtx ==
    /\ pc = "running"
    /\ IsClosed(cases[indexCtx])
    /\ cases' = RetireCase(cases, indexCtx)
    /\ pc' = "stopped"
    /\ closedFeeds' = closedFeeds \cup {"blocks"}
    /\ last' = Iteration(indexCtx, TRUE, NoItem, NoQuery, "none", <<>>)
    /\ UNCHANGED <<sdPresent, libVars, ctxDone, queries, height, chainHeight, blockCh,
                   queryCh, cmdCh, inputsLeft, subs,
                   blockSeen,
                   lastBlockHeight>>

\* Variant: a closed channel on any case ends the loop.
SelectClosedReturns ==
    /\ pc = "running"
    /\ \E chosen \in DOMAIN cases \ {indexCtx} :
           /\ IsClosed(cases[chosen])
           /\ cases' = RetireCase(cases, chosen)
           /\ last' = Iteration(chosen, TRUE, NoItem, NoQuery, "none", <<>>)
    /\ pc' = "stopped"
    /\ UNCHANGED <<sdPresent, libVars, ctxDone, queries, height, envVars, subs,
                   blockSeen,
                   lastBlockHeight>>

\* !recvOk on another case: replace the closed channel with nil; continue.
SelectClosed ==
    /\ pc = "running"
    /\ \E chosen \in DOMAIN cases \ {indexCtx} :
           /\ IsClosed(cases[chosen])
           /\ cases' = RetireCase(cases, chosen)
           /\ last' = Iteration(chosen, TRUE, NoItem, NoQuery, "none", <<>>)
    /\ UNCHANGED <<pc, sdPresent, libVars, ctxDone, queries, height, envVars, subs,
                   blockSeen,
                   lastBlockHeight>>

\* Results of EventBus().SubscribeUnbuffered: a subscription, an error, or a
\* nil subscription with a nil error.
SubscribeResults == {"ok", "err", "nil"}

\* Variant: only the error is checked, not the nil subscription.
SubscribeUsableNoNilCheck(res) == res /= "err"

\* The checks after SubscribeUnbuffered that let the worker go on to use sub.
SubscribeUsable(res) == res /= "err" /\ res /= "nil"

\* case indexQueries: subscribe to the new query; on success start the
\* forwarding goroutine and append the buffer's case and the query.
SelectQuery ==
    /\ pc = "running"
    /\ HasValue(cases[indexQueries])
    /\ LET query == Head(Pending(cases[indexQueries])) IN
       \E res \in SubscribeResults :
           /\ queryCh' = Tail(queryCh)
           /\ IF SubscribeUsable(res)
              THEN /\ subs' = Append(subs, NewSub(query))
                   /\ cases' = SliceAppend(cases, BufferChan(Len(subs) + 1))
                   /\ queries' = SliceAppend(queries, query)
              ELSE UNCHANGED <<subs, cases, queries>>
           /\ last' = Iteration(indexQueries, FALSE, NoItem, query, res, <<>>)
    /\ UNCHANGED <<pc, sdPresent, libVars, ctxDone, height, chainHeight, blockCh, cmdCh,
                   closedFeeds, inputsLeft, blockSeen,
                   lastBlockHeight>>

\* case indexCommands: svc.DeliverCommand(ctx, height, command); an error is
\* logged.
SelectCommand ==
    /\ pc = "running"
    /\ HasValue(cases[indexCommands])
    /\ LET cmd == Head(Pending(cases[indexCommands])) IN
       \E err \in BOOLEAN :
           last' = Iteration(indexCommands, FALSE, NoItem, NoQuery, "none",
                             <<Call("DeliverCommand", height, NoTx, 0, NoTmEv, cmd, err)>>)
    /\ cmdCh' = Tail(cmdCh)
    /\ UNCHANGED <<pc, sdPresent, libVars, ctxDone, cases, queries, height, chainHeight,
                   blockCh, queryCh, closedFeeds, inputsLeft, subs,
                   blockSeen,
                   lastBlockHeight>>

\* Variant: every block sets the commands case to the command source.
EnableCommandsAlways(cs, h) == [cs EXCEPT ![indexCommands] = CommandsChan]

\* if height == 0 { cases[indexCommands].Chan = reflect.ValueOf(sd.Commands()) }
EnableCommands(cs, h) ==
    IF h = 0 THEN [cs EXCEPT ![indexCommands] = CommandsChan] ELSE cs

\* recv.Interface().(*tmtypes.Block).Header.Height
HeaderHeight(blk) == blk.height

\* Variant: DeliverBlock is given the height held before the assignment.
DeliverBlockHeightBefore(before, after) == before

\* svc.DeliverBlock(ctx, height) follows the assignment to height.
DeliverBlockHeight(before, after) == after

\* case indexNewBlock: enable commands on the first block, take the block's
\* height, svc.DeliverBlock(ctx, height); an error is logged.
SelectNewBlock ==
    /\ pc = "running"
    /\ HasValue(cases[indexNewBlock])
    /\ LET blk == Head(Pending(cases[indexNewBlock])) IN
           /\ cases' = EnableCommands(cases, height)
           /\ height' = HeaderHeight(blk)
           /\ \E err \in BOOLEAN :
                  last' = Iteration(indexNewBlock, FALSE,
                                    [seq |-> 0, ev |-> BlockEvent(blk.height, <<>>, <<>>)],
                                    NoQuery, "none",
                                    <<Call("DeliverBlock",
                                           DeliverBlockHeight(height, HeaderHeight(blk)),
                                           NoTx, 0, NoTmEv, "none", err)>>)
    /\ blockCh' = Tail(blockCh)
    /\ blockSeen' = TRUE
    /\ lastBlockHeight' =
           DeliverBlockHeight(height,
                              HeaderHeight(Head(Pending(cases[indexNewBlock]))))
    /\ UNCHANGED <<pc, sdPresent, libVars, ctxDone, queries, chainHeight, queryCh, cmdCh,
                   closedFeeds, inputsLeft, subs>>

\* The switch on the service event: which of ev.Block, ev.Tx is set.
Known(ev) == ev.kind \in {"Block", "Tx"}

\* Variant: only a block event updates the height.
EventHeightBlockOnly(ev, h) == IF ev.kind = "Block" THEN ev.height ELSE h

\* height = ev.Block.Header.Height / height = ev.Tx.Height; an unknown event
\* leaves the height alone.
EventHeight(ev, h) == IF Known(ev) THEN ev.height ELSE h

\* tx = ev.Tx.Tx for a tx event; the zero value otherwise.
EventTx(ev) == IF ev.kind = "Tx" THEN ev.tx ELSE NoTx

\* Variant: the end-block events are placed before the begin-block events.
EventTmEventsEndFirst(ev) ==
    CASE ev.kind = "Block" -> ev.end \o ev.begin
      [] ev.kind = "Tx" -> ev.events
      [] OTHER -> <<>>

\* tmEvents: the begin-block events followed by the end-block events of a
\* block, the result events of a tx.
EventTmEvents(ev) ==
    CASE ev.kind = "Block" -> ev.begin \o ev.end
      [] ev.kind = "Tx" -> ev.events
      [] OTHER -> <<>>

\* Variant: only the query is checked, not the event's type.
SkipEventNoTypeCheck(query, tmEv) == ~Matches(query, tmEv)

\* The two continue statements at the head of the delivery loop: events not
\* of the service's type, and events not matching the query of the case.
SkipEvent(query, tmEv) ==
    \/ tmEv.type /= EventType
    \/ ~Matches(query, tmEv)

\* Variant: a DeliverEvent error ends the batch.
StopAfterError == FALSE

\* Whether the loop goes on to the next event after a DeliverEvent error.
ContinueAfterError == TRUE

\* for i, tmEv := range tmEvents { ... svc.DeliverEvent(ctx, height, tx,
\* &tmEvents[i]) ... }, from index i on; failing holds the indices whose
\* DeliverEvent call returns an error.
RECURSIVE DeliverEvents(_, _, _, _, _, _)
DeliverEvents(i, query, tmEvents, h, tx, failing) ==
    IF i > Len(tmEvents) THEN <<>>
    ELSE IF SkipEvent(query, tmEvents[i])
         THEN DeliverEvents(i + 1, query, tmEvents, h, tx, failing)
         ELSE <<Call("DeliverEvent", h, tx, i, tmEvents[i], "none", i \in failing)>>
              \o (IF i \in failing /\ ~ContinueAfterError
                  THEN <<>>
                  ELSE DeliverEvents(i + 1, query, tmEvents, h, tx, failing))

\* Variant: every buffer case is filtered with the query of the first
\* subscription.
SlotQueryFirst(qs, chosen) == qs[indexCommands + 1]

\* query := queries[chosen]
SlotQuery(qs, chosen) == qs[chosen]

\* The number of sub-events of a service event, begin-block and end-block
\* events of a block or result events of a transaction, that have the
\* service's event type and match the given query.
WantedBy(query, ev) ==
    LET batch == IF ev.kind = "Block" THEN ev.begin \o ev.end
                 ELSE IF ev.kind = "Tx" THEN ev.events
                 ELSE <<>>
    IN  Cardinality({i \in 1..Len(batch) :
                        batch[i].type = EventType /\ Matches(query, batch[i])})

\* The indices of tmEvents for which DeliverEvent is called.
Passing(query, tmEvents) ==
    {i \in 1..Len(tmEvents) : ~SkipEvent(query, tmEvents[i])}

\* default: a service event from the buffer of case chosen; take its height
\* and deliver its events that pass the filter.
SelectEvent ==
    /\ pc = "running"
    /\ \E chosen \in DOMAIN cases :
           /\ chosen > indexCommands
           /\ HasValue(cases[chosen])
           /\ LET k == cases[chosen].id
                  item == Head(Pending(cases[chosen]))
                  ev == item.ev
                  h == EventHeight(ev, height)
                  tmEvents == EventTmEvents(ev)
                  query == SlotQuery(queries, chosen)
              IN  /\ height' = h
                  /\ \E failing \in SUBSET Passing(query, tmEvents) :
                         LET calls == IF Known(ev)
                                      THEN DeliverEvents(1, query, tmEvents, h,
                                                         EventTx(ev), failing)
                                      ELSE <<>>
                         IN  /\ last' = Iteration(chosen, FALSE, item, query,
                                                  "none", calls)
                             /\ subs' = [subs EXCEPT
                                    ![k].buffer = Tail(@),
                                    ![k].taken = @ + 1,
                                    ![k].wanted = @ + WantedBy(subs[k].query, ev),
                                    ![k].delivered = @ + Len(calls)]
    /\ UNCHANGED <<pc, sdPresent, libVars, ctxDone, cases, queries, envVars, blockSeen,
                   lastBlockHeight>>

(* ------------------------------------------------------------------ *)
(* Specification                                                         *)
(* ------------------------------------------------------------------ *)
Next ==
    \/ CtxCancel
    \/ EngineNewBlock
    \/ RegisterQuery
    \/ SendCommand
    \/ CloseFeed
    \/ EngineCancel
    \/ TaskRecv
    \/ TaskPush
    \/ TaskReturn
    \/ TaskUnsubscribe
    \/ Start
    \/ SelectCtx
    \/ SelectClosed
    \/ SelectQuery
    \/ SelectCommand
    \/ SelectNewBlock
    \/ SelectEvent

Spec == Init /\ [][Next]_vars

\* The steps of the forwarding goroutine of subscription k that do not wait
\* for the engine: push, return on cancellation, deferred unsubscribe.
TaskStep(k) == TaskPushOf(k) \/ TaskReturnOf(k) \/ TaskUnsubscribeOf(k)

\* Every started goroutine is scheduled: a step of it that stays possible is
\* eventually taken.
FairInit == InitWith(MaxFairInputs)
FairSpec ==
    /\ FairInit /\ [][Next]_vars
    /\ \A k \in 1..MaxFairInputs : WF_vars(TaskStep(k))


(* ------------------------------------------------------------------ *)
(* Shorthands over the history                                           *)
(* ------------------------------------------------------------------ *)
\* The latest iteration handled a value received on the case of a buffer.
LastWasEvent == last.chosen > indexCommands /\ ~last.closed
\* The latest iteration handled a block notification.
LastWasBlock == last.chosen = indexNewBlock /\ ~last.closed
\* The operations named by the calls of the latest iteration.
LastOps == {last.calls[i].op : i \in 1..Len(last.calls)}
\* The commands case currently receives from the real command source.
CommandsEnabled == pc /= "start" /\ sdPresent /\ cases[indexCommands] = CommandsChan

(* ------------------------------------------------------------------ *)
(* C1                                                                    *)
(* ------------------------------------------------------------------ *)
\* C1: DeliverCommand is never called before the worker has handled at least
\* one block notification.
C1_NoCommandBeforeBlock == "DeliverCommand" \in LastOps => blockSeen

\* A command has been delivered.
C1_Witness == "DeliverCommand" \in LastOps /\ blockSeen


(* ------------------------------------------------------------------ *)
(* C2                                                                    *)
(* ------------------------------------------------------------------ *)
\* C2: once the worker has handled a block notification, command delivery is
\* enabled: the commands case receives from the real command source (as long
\* as that source has not been closed), whatever queries and subscription
\* events were handled before that block.
C2_CommandsEnabledAfterBlock ==
    (pc = "running" /\ blockSeen /\ "commands" \notin closedFeeds)
        => cases[indexCommands] = CommandsChan

(* ------------------------------------------------------------------ *)
(* C3                                                                    *)
(* ------------------------------------------------------------------ *)
\* C3: the worker's height never decreases from one step to the next.
C3_HeightMonotonic == [][height' >= height]_vars

(* ------------------------------------------------------------------ *)
(* C4                                                                    *)
(* ------------------------------------------------------------------ *)
\* The events of the batch received by the latest iteration, in order.
LastBatch == EventTmEvents(last.item.ev)
\* The positions of the batch whose event has the service's type and matches
\* the query of the chosen case.
LastWanted ==
    {i \in 1..Len(LastBatch) :
        LastBatch[i].type = EventType /\ Matches(last.query, LastBatch[i])}
\* The positions of the batch passed to DeliverEvent by the latest iteration.
LastDelivered == {last.calls[j].idx : j \in 1..Len(last.calls)}

\* C4: for a buffer case bound to query Q and a received batch, the events
\* passed to DeliverEvent are exactly the events of the batch that have the
\* descriptor's event type and match Q, each passed once.
C4_DeliveredExactlyMatching ==
    LastWasEvent =>
        /\ LastDelivered = LastWanted
        /\ Len(last.calls) = Cardinality(LastWanted)
        /\ \A j \in 1..Len(last.calls) :
               /\ last.calls[j].op = "DeliverEvent"
               /\ last.calls[j].idx \in 1..Len(LastBatch)
               /\ last.calls[j].ev = LastBatch[last.calls[j].idx]

\* A batch was handled that holds an event of another type matching the
\* query, an event of the service's type not matching the query of its
\* case, and events that were delivered.
C4_Witness ==
    /\ LastWasEvent
    /\ last.calls /= <<>>
    /\ \E i \in 1..Len(LastBatch) :
           LastBatch[i].type = EventType /\ ~Matches(last.query, LastBatch[i])
    /\ \E i \in 1..Len(LastBatch) : LastBatch[i].type /= EventType

\* A batch was handled whose only event matching the query of its case is of
\* another type than the service's, and nothing was delivered.
C4_WitnessOtherType ==
    /\ LastWasEvent
    /\ last.calls = <<>>
    /\ \E i \in 1..Len(LastBatch) :
           LastBatch[i].type /= EventType /\ Matches(last.query, LastBatch[i])

(* ------------------------------------------------------------------ *)
(* C5                                                                    *)
(* ------------------------------------------------------------------ *)
\* C5: once the context is cancelled, the next iteration of the loop is its
\* exit (an iteration shows as a change of the record of the latest one).
C5_ExitWithinOneWait == [][(ctxDone /\ last' /= last) => pc' = "stopped"]_vars

\* C5, as amended: the loop exits in the iteration in which reflect.Select
\* chooses the context case, and only then; that iteration makes no delivery
\* call, and none is made after the exit.
C5_ExitWhenCtxChosen ==
    /\ last.chosen = indexCtx => (pc = "stopped" /\ last.calls = <<>> /\ ctxDone)
    /\ (pc = "stopped" /\ sdPresent) => last.chosen = indexCtx

\* The loop has exited through the context case, having handled a block
\* notification and with a subscription opened.
C5_Witness ==
    /\ pc = "stopped"
    /\ last.chosen = indexCtx
    /\ blockSeen
    /\ subs /= <<>>


(* ------------------------------------------------------------------ *)
(* C6                                                                    *)
(* ------------------------------------------------------------------ *)
\* The step is the handling of a query registration whose subscribe failed.
FailedSubscribeStep ==
    /\ Len(queryCh') < Len(queryCh)
    /\ last'.chosen = indexQueries
    /\ last'.subres \in {"err", "nil"}

\* C6: when subscribing for a registered query fails (an error, or a nil
\* subscription without error), the cases and the queries are unchanged, no
\* subscription or forwarding goroutine is added, the loop keeps running and
\* the queries case still receives registrations.
C6_FailedSubscribeIsNoOp ==
    [][FailedSubscribeStep =>
          /\ cases' = cases
          /\ queries' = queries
          /\ subs' = subs
          /\ pc' = "running"
          /\ cases'[indexQueries] = QueriesChan]_vars

\* Two queries were registered and handled and nothing else happened; one
\* subscribe failed and the later one succeeded.
C6_Witness ==
    /\ pc = "running"
    /\ inputsLeft = MaxInputs - 2
    /\ chainHeight = 0
    /\ ~ctxDone
    /\ closedFeeds = {}
    /\ queryCh = <<>>
    /\ cmdCh = <<>>
    /\ last.chosen = indexQueries
    /\ last.subres = "ok"
    /\ Len(subs) = 1
    /\ ~subs[1].canceled
    /\ SliceLen(cases) = 5

(* ------------------------------------------------------------------ *)
(* C7                                                                    *)
(* ------------------------------------------------------------------ *)
\* C7: once command delivery is enabled, the commands case never goes back
\* to the blocked placeholder.
C7_NeverDisabledAgain == [][CommandsEnabled => CommandsEnabled']_vars

\* C7, as amended: command delivery is enabled only by the handling of the
\* first block notification, hence at most once, and the commands case goes
\* back to the blocked placeholder only when the loop finds the command
\* source itself closed; after that it is not enabled again.
C7_EnabledOnceUntilClosed ==
    [][/\ (CommandsEnabled /\ ~CommandsEnabled') =>
              (last'.chosen = indexCommands /\ last'.closed
                   /\ "commands" \in closedFeeds)
       /\ (~CommandsEnabled /\ CommandsEnabled') => (~blockSeen /\ blockSeen')]_vars

\* Command delivery was enabled and the closed command source was retired.
C7_Witness ==
    /\ pc = "running"
    /\ blockSeen
    /\ last.chosen = indexCommands
    /\ last.closed
    /\ cases[indexCommands] = NilChan

(* ------------------------------------------------------------------ *)
(* C8                                                                    *)
(* ------------------------------------------------------------------ *)
\* C8: after a block notification or a Block/Tx service event has been
\* handled, the height is the one the item declares, and every DeliverEvent
\* call made for the item carries that height and the item's tx bytes (none
\* for a block event).
C8_HeightAndTxOfItem ==
    /\ LastWasBlock => height = last.item.ev.height
    /\ (LastWasEvent /\ last.item.ev.kind \in {"Block", "Tx"}) =>
           /\ height = last.item.ev.height
           /\ \A j \in 1..Len(last.calls) :
                  /\ last.calls[j].height = last.item.ev.height
                  /\ last.calls[j].tx =
                         (IF last.item.ev.kind = "Tx" THEN last.item.ev.tx ELSE NoTx)

\* A tx event of a height above the first was handled after a block
\* notification, with deliveries.
C8_Witness ==
    /\ LastWasEvent
    /\ last.item.ev.kind = "Tx"
    /\ last.item.ev.height = 2
    /\ last.calls /= <<>>
    /\ blockSeen

(* ------------------------------------------------------------------ *)
(* C9                                                                    *)
(* ------------------------------------------------------------------ *)
\* C9: when the loop has returned, every subscription it opened is released:
\* its forwarding goroutine has ended, or is bound to end because the
\* subscription's cancellation has fired.
C9_StoppedReleasesSubs ==
    pc = "stopped" => \A k \in DOMAIN subs : subs[k].canceled

\* C9, as amended: the loop's return on cancellation releases nothing: the
\* step that stops the loop leaves every subscription and forwarding
\* goroutine as it was.
C9_ReturnLeavesSubs == [][(pc = "running" /\ pc' = "stopped") => subs' = subs]_vars

\* The loop has returned and a subscription it opened is still live, its
\* goroutine waiting in the select.
C9_Witness ==
    /\ pc = "stopped"
    /\ \E k \in DOMAIN subs : ~subs[k].canceled /\ subs[k].task = "select"

(* ------------------------------------------------------------------ *)
(* C10                                                                   *)
(* ------------------------------------------------------------------ *)
\* C10: a forwarding goroutine has left its loop, closed its buffer or
\* unsubscribed only if the cancellation of its own subscription has fired;
\* the outer context being cancelled does not make it do so.
C10_TaskEndsOnlyAfterCancel ==
    \A k \in DOMAIN subs :
        (\/ subs[k].task \in {"unsubscribe", "ended"}
         \/ subs[k].bufClosed
         \/ subs[k].unsubscribed) => subs[k].canceled

\* The context is cancelled and the loop has returned; one goroutine has
\* ended after its subscription was cancelled, another still waits in its
\* select for a subscription that is not cancelled.
C10_Witness ==
    /\ ctxDone
    /\ pc = "stopped"
    /\ \E k \in DOMAIN subs : subs[k].task = "ended" /\ subs[k].canceled
    /\ \E k \in DOMAIN subs : ~subs[k].canceled /\ subs[k].task = "select"

\* ---------------------------------------------------------------------------
\* C11: the worker stops in two ways only.  It returns on entry when the
\* service descriptor is absent, and then no slot was registered, no block
\* notification was accepted and no delivery was made; or it returns from the
\* iteration that observed the cancellation.  An iteration that handled a
\* failed subscribe, a failed delivery, an unknown event or a closed feed
\* leaves the loop running.
LastHadError ==
    \E j \in 1..Len(last.calls) : last.calls[j].err

C11_WitnessAbsent ==
    /\ pc = "stopped"
    /\ ~sdPresent
    /\ chainHeight > 0

\* ---------------------------------------------------------------------------
\* C12: within one batch, a DeliverEvent call that returns an error does not
\* prevent the delivery of the later sub-events of the batch that have the
\* service's type and match the query, and the loop's height after the batch
\* is the item's height whether or not a call failed.
C12_ErrorDoesNotStopBatch ==
    LastWasEvent =>
        /\ \A j \in 1..Len(last.calls) :
               last.calls[j].err =>
                   \A i \in LastWanted :
                       i > last.calls[j].idx =>
                           \E n \in (j + 1)..Len(last.calls) :
                               /\ last.calls[n].idx = i
                               /\ last.calls[n].op = "DeliverEvent"
                               /\ last.calls[n].ev = LastBatch[i]
        /\ Known(last.item.ev) => height = last.item.ev.height

\* A batch whose first DeliverEvent call failed and that has a later call.
C12_Witness ==
    /\ LastWasEvent
    /\ Len(last.calls) >= 2
    /\ last.calls[1].err
    /\ ~last.calls[2].err
    /\ height = last.item.ev.height

\* ---------------------------------------------------------------------------
\* C13: with several subscriptions on the service's event type, each copy of
\* an event is filtered against the query of the subscription it came from
\* only.  For every subscription the DeliverEvent calls made for its items
\* number the sub-events of those items that have the service's type and match
\* its own query, so the calls over all subscriptions are the sum of the
\* per-subscription matches.
RECURSIVE SumDelivered(_)
SumDelivered(k) == IF k = 0 THEN 0 ELSE subs[k].delivered + SumDelivered(k - 1)
RECURSIVE SumWanted(_)
SumWanted(k) == IF k = 0 THEN 0 ELSE subs[k].wanted + SumWanted(k - 1)

C13_CallsAreSumOfOwnMatches ==
    /\ \A k \in DOMAIN subs : subs[k].delivered = subs[k].wanted
    /\ SumDelivered(Len(subs)) = SumWanted(Len(subs))
    /\ LastWasEvent =>
           /\ cases[last.chosen] = BufferChan(last.chosen - indexCommands)
           /\ last.query = subs[last.chosen - indexCommands].query
           /\ Len(last.calls) =
                  WantedBy(subs[last.chosen - indexCommands].query, last.item.ev)

\* Two subscriptions with disjoint queries on the service's type have each
\* handled one event published at height 1 with three events of that type:
\* two calls for the one, one call for the other, three in all.
C13_Witness ==
    /\ Len(subs) = 2
    /\ chainHeight = 1
    /\ subs[1].query = TmEv("X", "a") /\ subs[2].query = TmEv("X", "b")
    /\ subs[1].taken = 1 /\ subs[2].taken = 1
    /\ subs[1].delivered = 2 /\ subs[2].delivered = 1
    /\ SumDelivered(2) = 3

\* ---------------------------------------------------------------------------
\* C14: within a batch the DeliverEvent calls follow the natural order of the
\* item.  For a block, the calls for begin-block events come first, in list
\* order, then the calls for end-block events, in list order; for a
\* transaction, the calls follow the index order of its result events.
C14_CallsInNaturalOrder ==
    LastWasEvent =>
        LET ev == last.item.ev
            calls == last.calls
            nBegin == IF ev.kind = "Block" THEN Len(ev.begin) ELSE 0
        IN  /\ \A j \in 1..Len(calls) : \A n \in 1..Len(calls) :
                   j < n => calls[j].idx < calls[n].idx
            /\ ev.kind = "Block" =>
                   \A j \in 1..Len(calls) :
                       /\ calls[j].idx \in 1..(nBegin + Len(ev.end))
                       /\ calls[j].ev = IF calls[j].idx <= nBegin
                                        THEN ev.begin[calls[j].idx]
                                        ELSE ev.end[calls[j].idx - nBegin]
            /\ ev.kind = "Tx" =>
                   \A j \in 1..Len(calls) :
                       /\ calls[j].idx \in 1..Len(ev.events)
                       /\ calls[j].ev = ev.events[calls[j].idx]

\* A block whose batch has a delivered begin-block event followed by a
\* delivered end-block event.
C14_Witness ==
    /\ LastWasEvent
    /\ last.item.ev.kind = "Block"
    /\ Len(last.calls) = 2
    /\ last.calls[1].idx <= Len(last.item.ev.begin)
    /\ last.calls[2].idx > Len(last.item.ev.begin)

\* A transaction with two delivered result events.
C14_WitnessTx ==
    /\ LastWasEvent
    /\ last.item.ev.kind = "Tx"
    /\ Len(last.calls) = 2
    /\ last.calls[1].idx < last.calls[2].idx

\* ---------------------------------------------------------------------------
\* C15: the events the loop processes from a subscription's slot are a prefix
\* of the block-header and tx events the engine emitted on that subscription,
\* in the same order and without duplication: the n-th item taken from the
\* slot is the n-th emitted event, and the buffer holds the following ones in
\* emission order.
C15_FifoPerSubscription ==
    /\ \A k \in DOMAIN subs :
           /\ \A i \in 1..Len(subs[k].buffer) :
                  subs[k].buffer[i].seq = subs[k].taken + i
           /\ subs[k].sent = subs[k].taken + Len(subs[k].buffer)
                              + (IF subs[k].task = "push" THEN 1 ELSE 0)
    /\ LastWasEvent =>
           last.item.seq = subs[last.chosen - indexCommands].taken

\* The loop has processed the first and then the second event of a
\* subscription, and the third one waits in the buffer.
C15_Witness ==
    /\ LastWasEvent
    /\ last.item.seq = 2
    /\ LET k == last.chosen - indexCommands
       IN  /\ subs[k].taken = 2
           /\ Len(subs[k].buffer) = 1
           /\ subs[k].buffer[1].seq = 3

\* ---------------------------------------------------------------------------
\* C16: the wait-set only grows and its indices are stable.  The number of
\* slots never decreases; every successfully opened subscription has exactly
\* one slot, appended at the end together with its query; the query paired
\* with a slot never changes; the slot of a cancelled subscription is made
\* inert and stays in place.
SlotOf(k) == indexCommands + k

SlotsWellFormed ==
    (pc /= "start" /\ sdPresent) =>
        /\ DOMAIN cases = 0..(indexCommands + Len(subs))
        /\ DOMAIN queries = DOMAIN cases
        /\ \A k \in DOMAIN subs :
               /\ cases[SlotOf(k)] \in {BufferChan(k), NilChan}
               /\ queries[SlotOf(k)] = subs[k].query
               /\ cases[SlotOf(k)] = NilChan => subs[k].bufClosed
               /\ \A i \in DOMAIN cases :
                      cases[i] = BufferChan(k) => i = SlotOf(k)

C16_WaitSetOnlyGrows ==
    [][ /\ SliceLen(cases') >= SliceLen(cases)
        /\ SliceLen(queries') >= SliceLen(queries)
        /\ \A i \in DOMAIN queries :
               i \in DOMAIN queries' /\ queries'[i] = queries[i]
        /\ \A i \in DOMAIN cases :
               /\ i \in DOMAIN cases'
               /\ i > indexCommands => cases'[i] \in {cases[i], NilChan}
        /\ (pc = "running" /\ SliceLen(cases') /= SliceLen(cases)) =>
               /\ SliceLen(cases') = SliceLen(cases) + 1
               /\ Len(subs') = Len(subs) + 1
               /\ cases'[SliceLen(cases)] = BufferChan(Len(subs'))
               /\ queries'[SliceLen(cases)] = Head(queryCh)
               /\ subs'[Len(subs')].query = Head(queryCh)
        /\ (pc = "running" /\ Len(subs') /= Len(subs)) =>
               SliceLen(cases') = SliceLen(cases) + 1
        /\ SlotsWellFormed'
      ]_vars

\* The slot of a cancelled first subscription is inert and still in place,
\* and a second subscription was appended after it.
C16_Witness ==
    /\ pc = "running"
    /\ Len(subs) = 2
    /\ SliceLen(cases) = indexCommands + 3
    /\ cases[SlotOf(1)] = NilChan
    /\ subs[1].canceled
    /\ cases[SlotOf(2)] = BufferChan(2)
    /\ queries[SlotOf(1)] = subs[1].query
    /\ queries[SlotOf(1)] /= queries[SlotOf(2)]

\* ---------------------------------------------------------------------------
\* C17: an iteration that observes a source other than the cancellation
\* signal closed makes no delivery and changes nothing but the chosen slot,
\* whose channel becomes the nil channel; a slot retired this way is never
\* chosen again and keeps the nil channel for the rest of the worker's life.
RetiredSlot(i) ==
    /\ pc /= "start" /\ sdPresent
    /\ i \in DOMAIN cases \ {indexCtx}
    /\ cases[i] = NilChan
    /\ i = indexCommands => height /= 0

C17_ClosedSourceOnlyRetired ==
    [][ /\ (last' /= last /\ last'.closed /\ last'.chosen /= indexCtx) =>
              /\ IsClosed(cases[last'.chosen])
              /\ cases' = [cases EXCEPT ![last'.chosen] = NilChan]
              /\ last'.calls = <<>>
              /\ last'.item = NoItem
              /\ UNCHANGED <<pc, sdPresent, ctxDone, queries, height, envVars,
                             subs, blockSeen,
                   lastBlockHeight>>
        /\ \A i \in DOMAIN cases :
               RetiredSlot(i) =>
                   /\ cases'[i] = NilChan
                   /\ last' /= last => last'.chosen /= i
      ]_vars

\* The slot of the first subscription was retired after its buffer was seen
\* closed, the commands slot was retired after the command source was seen
\* closed, and the loop has handled a block since.
C17_Witness ==
    /\ pc = "running"
    /\ Len(subs) >= 1
    /\ RetiredSlot(SlotOf(1))
    /\ RetiredSlot(indexCommands)
    /\ blockSeen
    /\ "commands" \in closedFeeds
    /\ LastWasBlock

C19_CancelledTaskEnds ==
    /\ \A k \in 1..MaxFairInputs :
           (k \in DOMAIN subs /\ subs[k].canceled)
               ~> (/\ k \in DOMAIN subs
                   /\ subs[k].task = "ended"
                   /\ subs[k].bufClosed
                   /\ subs[k].unsubscribed)
    /\ [][ \A k \in DOMAIN subs :
               /\ subs[k].bufClosed =>
                      /\ subs'[k].bufClosed
                      /\ subs'[k].task \in {"unsubscribe", "ended"}
                      /\ Len(subs'[k].buffer) <= Len(subs[k].buffer)
                      /\ subs'[k].sent = subs[k].sent
               /\ (~subs[k].bufClosed /\ subs'[k].bufClosed) =>
                      /\ subs[k].canceled
                      /\ subs[k].task = "select"
                      /\ subs'[k].task = "unsubscribe"
               /\ subs'[k].unsubscribed => subs'[k].bufClosed
          ]_vars

\* A subscription was cancelled while its goroutine held an event to push;
\* the goroutine has pushed it, closed the buffer, unsubscribed and ended.
C19_Witness ==
    \E k \in DOMAIN subs :
        /\ subs[k].canceled
        /\ subs[k].task = "ended"
        /\ subs[k].bufClosed
        /\ subs[k].unsubscribed
        /\ subs[k].sent = 1
        /\ Len(subs[k].buffer) = 1

\* ---------------------------------------------------------------------------
\* C20: handling a block notification makes exactly one DeliverBlock call,
\* which carries the block's header height, the value height holds after the
\* update.  Whether or not that call fails, height is the header height,
\* commands are enabled exactly as the height before the block dictates, the
\* block case stays armed and the loop keeps running.
C20_OneDeliverBlockPerBlock ==
    [][ Len(blockCh') < Len(blockCh) =>
            LET blk == Head(blockCh)
            IN  /\ blockCh' = Tail(blockCh)
                /\ last'.chosen = indexNewBlock
                /\ Len(last'.calls) = 1
                /\ last'.calls[1].op = "DeliverBlock"
                /\ last'.calls[1].height = blk.height
                /\ last'.calls[1].height = height'
                /\ height' = blk.height
                /\ pc' = "running"
                /\ cases'[indexNewBlock] = cases[indexNewBlock]
                /\ cases'[indexCommands] =
                       IF height = 0 THEN CommandsChan ELSE cases[indexCommands]
      ]_vars

\* The DeliverBlock call for the block of height 2 failed: height is that
\* block's height, commands are enabled, and a further block waits on the
\* armed block case.
C20_Witness ==
    /\ pc = "running"
    /\ LastWasBlock
    /\ last.calls[1].err
    /\ last.calls[1].height = 2
    /\ height = 2
    /\ CommandsEnabled
    /\ cases[indexNewBlock] = NewBlockChan
    /\ Len(blockCh) = 1

(* ------------------------------------------------------------------ *)
(* Package signature: keys, PEM files                                    *)
(* ------------------------------------------------------------------ *)
\* The worker of a run that exercises one of the library packages only: it
\* returned on entry, without a service descriptor.
ServiceIdle ==
    /\ pc = "stopped"
    /\ sdPresent = FALSE
    /\ ctxDone = FALSE
    /\ cases = EmptySlice
    /\ queries = EmptySlice
    /\ height = 0
    /\ chainHeight = 0
    /\ blockCh = <<>>
    /\ queryCh = <<>>
    /\ cmdCh = <<>>
    /\ closedFeeds = {}
    /\ inputsLeft = 0
    /\ subs = <<>>
    /\ last = NoIteration
    /\ blockSeen = FALSE
    /\ lastBlockHeight = 0

\* PublicKeySize = ed25519.PublicKeySize, SignatureSize =
\* ed25519.SignatureSize.
PublicKeySize == 32
SignatureSize == 64
pubPEMType == "ED25519 PUBLIC KEY"
sigPEMType == "ED25519 SIGNATURE"

\* error values; NoErr is the nil error.
NoErr == "nil"
ErrMalformedPublicKey == "signature: malformed public key"
ErrVerifyFailed == "signed: signature verification failed"
errKeyMismatch == "signature: public key PEM is not for private key"
ErrNotExist == "open: file does not exist"
ErrOpen == "open: failed"
ErrWrite == "write: failed"
ErrPem == "pem: failed to decode"

\* type PublicKey ed25519.PublicKey, a byte slice: the well-formed keys of the
\* model, the nil key and a key that is too short.
KeyOf(b) == [i \in 1..PublicKeySize |-> b]
NilKey == <<>>
ShortKey == <<7, 7>>
PublicKeys == {KeyOf(1), KeyOf(2)}
AnyKeys == PublicKeys \cup {NilKey, ShortKey}

\* The built-in copy(dst, src): min(len(dst), len(src)) elements are copied,
\* the length of dst does not change.
Copy(dst, src) ==
    [i \in 1..Len(dst) |-> IF i <= Len(src) THEN src[i] ELSE dst[i]]

\* Signer: nil, or a signer with its public key (signer.Public()).
NoSigner == [present |-> FALSE, pub |-> NilKey]
SignerOf(pub) == [present |-> TRUE, pub |-> pub]
Signers == {SignerOf(pub) : pub \in PublicKeys}

\* pem.Marshal(type, bytes): the content of a PEM file.
PemMarshal(type, bytes) == [exists |-> TRUE, type |-> type, bytes |-> bytes]
\* pem.Unmarshal(type, data): the bytes of the block, or an error when the
\* data holds no block of that type.
PemUnmarshal(type, data) ==
    IF data.type = type
    THEN [bytes |-> data.bytes, err |-> NoErr]
    ELSE [bytes |-> <<>>, err |-> ErrPem]

\* (k *PublicKey).UnmarshalBinary(data)
UnmarshalBinary(k, data) ==
    IF Len(data) = 0 THEN [k |-> NilKey, err |-> NoErr]
    ELSE IF Len(data) /= PublicKeySize
         THEN [k |-> k, err |-> ErrMalformedPublicKey]
         ELSE LET keybuf == IF Len(k) /= PublicKeySize THEN KeyOf(0) ELSE k
              IN  [k |-> Copy(keybuf, data), err |-> NoErr]

\* (k *PublicKey).UnmarshalPEM(data)
UnmarshalPEM(k, data) ==
    LET b == PemUnmarshal(pubPEMType, data)
    IN  IF b.err /= NoErr THEN [k |-> k, err |-> b.err]
        ELSE UnmarshalBinary(k, b.bytes)

\* (k PublicKey).MarshalPEM()
MarshalPEM(k) == PemMarshal(pubPEMType, k)

\* (k PublicKey).Equal(cmp)
Equal(k, cmp) == k = cmp

\* (k *PublicKey).LoadPEM(fn, signer) on the file found at fn; openFails and
\* writeFails say whether os.Open of an existing file and ioutil.WriteFile
\* fail.  The result is the receiver, the file and the error afterwards.
LoadPEM(k, file, signer, openFails, writeFails) ==
    IF ~file.exists \/ openFails
    THEN IF ~file.exists /\ signer.present
         THEN LET pubKey == signer.pub
                  buf == MarshalPEM(pubKey)
              IN  [k |-> Copy(k, pubKey),
                   file |-> IF writeFails THEN file ELSE buf,
                   err |-> IF writeFails THEN ErrWrite ELSE NoErr]
         ELSE [k |-> k, file |-> file,
               err |-> IF file.exists THEN ErrOpen ELSE ErrNotExist]
    ELSE LET u == UnmarshalPEM(k, file)
         IN  IF u.err /= NoErr THEN [k |-> k, file |-> file, err |-> u.err]
             ELSE IF signer.present /\ ~Equal(u.k, signer.pub)
                  THEN [k |-> u.k, file |-> file, err |-> errKeyMismatch]
                  ELSE [k |-> u.k, file |-> file, err |-> NoErr]

\* The files LoadPEM may find: none, the PEM of a key, the PEM of a
\* signature, the PEM of a short key.
PemFiles ==
    {NoFile} \cup {MarshalPEM(k) : k \in PublicKeys \cup {ShortKey}}
             \cup {PemMarshal(sigPEMType, KeyOf(1))}

\* A call of LoadPEM with some receiver and some signer on the current file.
CallLoadPEM ==
    /\ \E k \in AnyKeys, signer \in Signers \cup {NoSigner},
          openFails \in BOOLEAN, writeFails \in BOOLEAN :
           LET r == LoadPEM(k, pemFile, signer, openFails, writeFails)
           IN  /\ pemFile' = r.file
               /\ sigRet' = [op |-> "LoadPEM", k0 |-> k, file0 |-> pemFile,
                             signer |-> signer, k |-> r.k, err |-> r.err]
    /\ UNCHANGED <<serviceVars, bundleVars, testPublicKeys,
                   blacklistedPublicKeys, registryCalls>>

\* Someone removes the key file.
RemovePemFile ==
    /\ pemFile.exists
    /\ pemFile' = NoFile
    /\ UNCHANGED <<serviceVars, bundleVars, testPublicKeys,
                   blacklistedPublicKeys, registryCalls, sigRet>>

PemInit ==
    /\ ServiceIdle
    /\ BundleIdle
    /\ testPublicKeys = {}
    /\ blacklistedPublicKeys = {}
    /\ registryCalls = <<>>
    /\ pemFile \in PemFiles
    /\ sigRet = NoCall

PemNext == CallLoadPEM \/ RemovePemFile

PemSpec == PemInit /\ [][PemNext]_vars

\* ---------------------------------------------------------------------------
\* C21: LoadPEM on a missing file with a signer writes the signer's public
\* key to the file in PEM form and leaves the receiver equal to the signer's
\* public key, whatever the receiver held before; on a missing file without
\* a signer it writes nothing and returns the error.
C21_LoadPEMWritesAndLoads ==
    (sigRet.op = "LoadPEM" /\ ~sigRet.file0.exists) =>
        /\ (sigRet.signer.present /\ sigRet.err = NoErr) =>
               /\ pemFile = PemMarshal(pubPEMType, sigRet.signer.pub)
               /\ sigRet.k = sigRet.signer.pub
        /\ ~sigRet.signer.present =>
               /\ sigRet.err /= NoErr
               /\ pemFile = sigRet.file0
               /\ sigRet.k = sigRet.k0

(* ------------------------------------------------------------------ *)
(* Package signature: verification, signed blobs, the key blacklist      *)
(* ------------------------------------------------------------------ *)
\* How many RegisterTestPublicKey and BuildPublicKeyBlacklist calls a run
\* makes.
MaxRegistryCalls == 3

ErrContext == "signature: context not registered"
ErrCbor == "cbor: failed to decode"

\* Signature contexts: one that PrepareSignerMessage accepts and one that it
\* rejects.
Contexts == {"ctx/a", "ctx/unregistered"}
\* Messages and blobs: one that decodes and one that does not.
Blobs == {"blob1", "blobBad"}

\* PrepareSignerMessage(context, message): the data that is signed, or an
\* error.
PrepareSignerMessage(context, message) ==
    IF context = "ctx/unregistered"
    THEN [data |-> <<>>, err |-> ErrContext]
    ELSE [data |-> <<context, message>>, err |-> NoErr]

\* Raw signatures: the one a key makes over prepared data, a forged one, and
\* a byte slice that is too short to be a signature.
RawSig(by, data) == [len |-> SignatureSize, by |-> by, data |-> data]
ForgedSig == [len |-> SignatureSize, by |-> NilKey, data |-> <<>>]
TruncatedSig == [len |-> 1, by |-> NilKey, data |-> <<>>]
RawSigs ==
    {RawSig(k, <<"ctx/a", b>>) : k \in PublicKeys, b \in Blobs}
        \cup {ForgedSig}

\* ed25519.Verify(publicKey, data, sig)
Ed25519Verify(k, data, sig) ==
    /\ Len(k) = PublicKeySize
    /\ sig.len = SignatureSize
    /\ sig.by = k
    /\ sig.data = data

\* type Signature struct { PublicKey; Signature RawSignature }
SignatureOf(k, raw) == [publicKey |-> k, raw |-> raw]
\* The signatures given to Signature.Verify and Signed.Open.
Signatures ==
    {SignatureOf(k, raw) : k \in PublicKeys \cup {NilKey}, raw \in RawSigs}
\* The signatures given to the batch functions: all over the same data.
BatchSignatures ==
    {SignatureOf(k, RawSig(by, <<"ctx/a", "blob1">>)) :
        k \in PublicKeys \cup {NilKey}, by \in PublicKeys}

\* (k *PublicKey).isBlacklisted(): k.ToMapKey() panics on a key of another
\* length than PublicKeySize.
IsBlacklisted(k, blacklist) ==
    IF Len(k) /= PublicKeySize THEN "panic"
    ELSE IF k \in blacklist THEN "true" ELSE "false"

\* (k PublicKey).Verify(context, message, sig)
PublicKeyVerify(k, context, message, sig, blacklist) ==
    IF Len(k) /= PublicKeySize THEN FALSE
    ELSE IF sig.len /= SignatureSize THEN FALSE
    ELSE IF IsBlacklisted(k, blacklist) = "true" THEN FALSE
    ELSE LET m == PrepareSignerMessage(context, message)
         IN  IF m.err /= NoErr THEN FALSE
             ELSE Ed25519Verify(k, m.data, sig)

\* (s *Signature).Verify(context, message)
SignatureVerify(sg, context, message, blacklist) ==
    PublicKeyVerify(sg.publicKey, context, message, sg.raw, blacklist)

\* The for loop of VerifyManyToOne from index i on: "panic", "false" when a
\* key is blacklisted, "ok" when the loop ends.
RECURSIVE ManyToOneLoop(_, _, _)
ManyToOneLoop(i, sigs, blacklist) ==
    IF i > Len(sigs) THEN "ok"
    ELSE LET b == IsBlacklisted(sigs[i].publicKey, blacklist)
         IN  IF b = "panic" THEN "panic"
             ELSE IF b = "true" THEN "false"
             ELSE ManyToOneLoop(i + 1, sigs, blacklist)

\* VerifyManyToOne(context, message, sigs): "true", "false" or "panic".
VerifyManyToOne(context, message, sigs, blacklist) ==
    LET m == PrepareSignerMessage(context, message)
    IN  IF m.err /= NoErr THEN "false"
        ELSE LET l == ManyToOneLoop(1, sigs, blacklist)
             IN  IF l /= "ok" THEN l
                 ELSE IF \A i \in 1..Len(sigs) :
                            Ed25519Verify(sigs[i].publicKey, m.data, sigs[i].raw)
                      THEN "true" ELSE "false"

\* The for loop of VerifyBatch from index i on.
RECURSIVE BatchLoop(_, _, _, _, _)
BatchLoop(i, context, messages, sigs, blacklist) ==
    IF i > Len(sigs) THEN "ok"
    ELSE LET b == IsBlacklisted(sigs[i].publicKey, blacklist)
         IN  IF b = "panic" THEN "panic"
             ELSE IF b = "true" THEN "false"
             ELSE IF PrepareSignerMessage(context, messages[i]).err /= NoErr
                  THEN "false"
                  ELSE BatchLoop(i + 1, context, messages, sigs, blacklist)

\* VerifyBatch(context, messages, sigs): "true", "false" or "panic".
VerifyBatch(context, messages, sigs, blacklist) ==
    IF Len(messages) /= Len(sigs) THEN "panic"
    ELSE LET l == BatchLoop(1, context, messages, sigs, blacklist)
         IN  IF l /= "ok" THEN l
             ELSE IF \A i \in 1..Len(sigs) :
                        Ed25519Verify(sigs[i].publicKey,
                                      PrepareSignerMessage(context, messages[i]).data,
                                      sigs[i].raw)
                  THEN "true" ELSE "false"

\* dst.UnmarshalCBOR(blob): the decoded value, or an error.
Decoded(blob) == <<"decoded", blob>>
UnmarshalCBOR(dst, blob) ==
    IF blob = "blobBad" THEN [dst |-> dst, err |-> ErrCbor]
    ELSE [dst |-> Decoded(blob), err |-> NoErr]

\* type Signed struct { Blob; Signature }
SignedOf(blob, sg) == [blob |-> blob, signature |-> sg]

\* Variant: the blob is decoded into dst before the signature is verified.
SignedOpenDecodeFirst(signed, context, dst, blacklist) ==
    LET u == UnmarshalCBOR(dst, signed.blob)
    IN  IF ~SignatureVerify(signed.signature, context, signed.blob, blacklist)
        THEN [dst |-> u.dst, err |-> ErrVerifyFailed]
        ELSE u

\* (s *Signed).Open(context, dst)
SignedOpen(signed, context, dst, blacklist) ==
    IF ~SignatureVerify(signed.signature, context, signed.blob, blacklist)
    THEN [dst |-> dst, err |-> ErrVerifyFailed]
    ELSE UnmarshalCBOR(dst, signed.blob)

\* RegisterTestPublicKey(pk): pk.ToMapKey() panics on a malformed key.
RegisterTestPublicKey ==
    /\ Len(registryCalls) < MaxRegistryCalls
    /\ \E pk \in AnyKeys :
           IF Len(pk) /= PublicKeySize
           THEN /\ sigRet' = [op |-> "RegisterTestPublicKey", key |-> pk,
                              result |-> "panic"]
                /\ UNCHANGED <<testPublicKeys, registryCalls>>
           ELSE /\ testPublicKeys' = testPublicKeys \cup {pk}
                /\ registryCalls' = Append(registryCalls,
                                           [op |-> "register", key |-> pk])
                /\ sigRet' = [op |-> "RegisterTestPublicKey", key |-> pk,
                              result |-> "ok"]
    /\ UNCHANGED <<serviceVars, bundleVars, blacklistedPublicKeys, pemFile>>

\* Variant: the test keys are blacklisted whatever allowTestKeys says.
BlacklistAfterBuildAlways(allowTestKeys, test, blacklist) == blacklist \cup test

\* BuildPublicKeyBlacklist(allowTestKeys): the blacklist afterwards.
BlacklistAfterBuild(allowTestKeys, test, blacklist) ==
    IF ~allowTestKeys THEN blacklist \cup test ELSE blacklist

BuildPublicKeyBlacklist ==
    /\ Len(registryCalls) < MaxRegistryCalls
    /\ \E allowTestKeys \in BOOLEAN :
           /\ blacklistedPublicKeys' =
                  BlacklistAfterBuild(allowTestKeys, testPublicKeys,
                                      blacklistedPublicKeys)
           /\ registryCalls' = Append(registryCalls,
                                      [op |-> "build", allow |-> allowTestKeys])
           /\ sigRet' = [op |-> "BuildPublicKeyBlacklist",
                         allow |-> allowTestKeys, result |-> "ok"]
    /\ UNCHANGED <<serviceVars, bundleVars, testPublicKeys, pemFile>>

\* A call of PublicKey.Verify.
CallVerify ==
    /\ \E k \in AnyKeys, context \in Contexts, message \in Blobs,
          sig \in RawSigs \cup {TruncatedSig} :
           sigRet' = [op |-> "Verify", keys |-> {k}, context |-> context,
                      result |-> IF PublicKeyVerify(k, context, message, sig,
                                                    blacklistedPublicKeys)
                                 THEN "true" ELSE "false"]
    /\ UNCHANGED <<serviceVars, bundleVars, testPublicKeys,
                   blacklistedPublicKeys, registryCalls, pemFile>>

\* The signature lists given to the batch functions: one or two signatures.
SigLists ==
    {<<a>> : a \in BatchSignatures}
        \cup {<<a, b>> : a \in BatchSignatures, b \in BatchSignatures}

\* A call of VerifyManyToOne.
CallVerifyManyToOne ==
    /\ \E context \in Contexts, sigs \in SigLists :
           sigRet' = [op |-> "VerifyManyToOne",
                      keys |-> {sigs[i].publicKey : i \in 1..Len(sigs)},
                      context |-> context,
                      result |-> VerifyManyToOne(context, "blob1", sigs,
                                                 blacklistedPublicKeys)]
    /\ UNCHANGED <<serviceVars, bundleVars, testPublicKeys,
                   blacklistedPublicKeys, registryCalls, pemFile>>

\* A call of VerifyBatch with as many messages as signatures.
CallVerifyBatch ==
    /\ \E context \in Contexts, sigs \in SigLists :
           sigRet' = [op |-> "VerifyBatch",
                      keys |-> {sigs[i].publicKey : i \in 1..Len(sigs)},
                      context |-> context,
                      result |-> VerifyBatch(context,
                                             [i \in 1..Len(sigs) |-> "blob1"],
                                             sigs, blacklistedPublicKeys)]
    /\ UNCHANGED <<serviceVars, bundleVars, testPublicKeys,
                   blacklistedPublicKeys, registryCalls, pemFile>>

\* A call of Signed.Open with a destination that holds dst0.
CallOpen ==
    /\ \E blob \in Blobs, sg \in Signatures, context \in Contexts :
           LET signed == SignedOf(blob, sg)
               r == SignedOpen(signed, context, "dst0", blacklistedPublicKeys)
           IN  sigRet' = [op |-> "Open", signed |-> signed,
                          context |-> context, dst0 |-> "dst0",
                          dst |-> r.dst, err |-> r.err]
    /\ UNCHANGED <<serviceVars, bundleVars, testPublicKeys,
                   blacklistedPublicKeys, registryCalls, pemFile>>

SigInit ==
    /\ ServiceIdle
    /\ BundleIdle
    /\ SigIdle

SigNext ==
    \/ RegisterTestPublicKey
    \/ BuildPublicKeyBlacklist
    \/ CallVerify
    \/ CallVerifyManyToOne
    \/ CallVerifyBatch
    \/ CallOpen

SigSpec == SigInit /\ [][SigNext]_vars

\* ---------------------------------------------------------------------------
\* C22: Signed.Open verifies the signature over (context, Blob) before it
\* decodes anything.  When the signature is not a valid signature by a
\* well-formed key that is not blacklisted over the context and the blob, it
\* returns ErrVerifyFailed and dst is as before; dst holds the decoded blob
\* only when the signature is valid.
OpenedSignatureValid ==
    LET sg == sigRet.signed.signature
    IN  /\ Len(sg.publicKey) = PublicKeySize
        /\ sg.publicKey \notin blacklistedPublicKeys
        /\ sigRet.context /= "ctx/unregistered"
        /\ sg.raw = RawSig(sg.publicKey, <<sigRet.context, sigRet.signed.blob>>)

C22_OpenVerifiesBeforeDecoding ==
    sigRet.op = "Open" =>
        /\ ~OpenedSignatureValid =>
               /\ sigRet.err = ErrVerifyFailed
               /\ sigRet.dst = sigRet.dst0
        /\ sigRet.dst /= sigRet.dst0 =>
               /\ OpenedSignatureValid
               /\ sigRet.dst = Decoded(sigRet.signed.blob)
               /\ sigRet.err = NoErr
        /\ OpenedSignatureValid => sigRet.err /= ErrVerifyFailed

\* A blob that decodes, with a signature by a blacklisted key that would
\* otherwise be valid: Open returned ErrVerifyFailed and left dst alone.
C22_Witness ==
    /\ sigRet.op = "Open"
    /\ sigRet.signed.blob = "blob1"
    /\ sigRet.signed.signature.publicKey \in blacklistedPublicKeys
    /\ sigRet.signed.signature.raw =
           RawSig(sigRet.signed.signature.publicKey, <<sigRet.context, "blob1">>)
    /\ sigRet.err = ErrVerifyFailed
    /\ sigRet.dst = sigRet.dst0

\* A valid signature: the blob was decoded into dst.
C22_WitnessDecoded ==
    /\ sigRet.op = "Open"
    /\ OpenedSignatureValid
    /\ sigRet.dst = Decoded("blob1")

\* ---------------------------------------------------------------------------
\* C27: after any sequence of RegisterTestPublicKey and
\* BuildPublicKeyBlacklist calls, a key is blacklisted exactly when it was
\* registered as a test key before some BuildPublicKeyBlacklist(false) call
\* (so the blacklist never shrinks and BuildPublicKeyBlacklist(true) adds
\* nothing), and PublicKey.Verify, VerifyManyToOne and VerifyBatch return
\* false whenever one of the public keys involved is blacklisted.
RegisteredBeforeBuild(k) ==
    \E i \in 1..Len(registryCalls), j \in 1..Len(registryCalls) :
        /\ i < j
        /\ registryCalls[i].op = "register"
        /\ registryCalls[i].key = k
        /\ registryCalls[j].op = "build"
        /\ ~registryCalls[j].allow

VerifyOps == {"Verify", "VerifyManyToOne", "VerifyBatch"}

BlacklistIsAsRegistered ==
    \A k \in PublicKeys :
        k \in blacklistedPublicKeys <=> RegisteredBeforeBuild(k)

C27_BlacklistedKeysNeverVerify ==
    /\ BlacklistIsAsRegistered
    /\ sigRet.op \in VerifyOps =>
           ((sigRet.keys \cap blacklistedPublicKeys) /= {} =>
                sigRet.result = "false")

\* What holds of the registries, apart from the results of the batch
\* functions on malformed keys.
C27_BlacklistHistory ==
    /\ BlacklistIsAsRegistered
    /\ blacklistedPublicKeys \subseteq testPublicKeys
    /\ sigRet.op \in VerifyOps =>
           ((sigRet.keys \cap blacklistedPublicKeys) /= {} =>
                sigRet.result \in {"false", "panic"})
    /\ sigRet.op = "Verify" => sigRet.result /= "panic"

(* ------------------------------------------------------------------ *)
(* Package bundle: Bundle, Manifest, Validate                            *)
(* ------------------------------------------------------------------ *)
\* The name of the manifest inside a bundle; it lies in a directory.
manifestName == "META-INF/MANIFEST.MF"
\* File names: three plain ones, the empty name and one in a directory.
PlainNames == {"runtime.elf", "runtime.sgxs", "runtime.sig"}
\* filepath.Dir(fn); the empty name and plain names have the directory ".".
Dir(fn) ==
    CASE fn = manifestName -> "META-INF"
      [] fn = "sub/file" -> "sub"
      [] OTHER -> "."

\* The manifest a byte slice holds as JSON, if any.
NoManifest == [none |-> TRUE]
\* []byte values: the nil slice, the empty slice, file contents, and the JSON
\* form of a manifest.
NilBytes == [nil |-> TRUE, bytes |-> <<>>, json |-> NoManifest]
BytesOf(bytes) == [nil |-> FALSE, bytes |-> bytes, json |-> NoManifest]
EmptyBytes == BytesOf(<<>>)
\* len(b)
BytesLen(b) == Len(b.bytes)
\* append([]byte{}, b...): a copy, never the nil slice.
CopyBytes(b) == [b EXCEPT !.nil = FALSE]

\* hash.NewFromBytes(b): the digest of the content; nil and empty slices
\* have the same one.
Hash(b) == [sum |-> <<b.bytes, b.json>>]

\* type Manifest: Executable, SGX (nil or Executable and Signature), Digests.
NoSGX == [present |-> FALSE, executable |-> "", signature |-> ""]
SGXOf(executable, signature) ==
    [present |-> TRUE, executable |-> executable, signature |-> signature]
ManifestOf(executable, sgx, digests) ==
    [executable |-> executable, sgx |-> sgx, digests |-> digests]
\* type Bundle: Manifest and Data; maps are functions on the keys present.
BundleOf(manifest, data) ==
    [present |-> TRUE, manifest |-> manifest, data |-> data]
\* bnd.Data[fn], m.Digests[fn] of a map: the zero value for a missing key.
DataAt(b, fn) == IF fn \in DOMAIN b.data THEN b.data[fn] ELSE NilBytes

\* json.Marshal(manifest) and json.Unmarshal(b, &manifest)
JsonMarshal(manifest) == [nil |-> FALSE, bytes |-> <<0>>, json |-> manifest]
JsonParses(b) == b.json /= NoManifest

\* needFiles of Validate, in order, with their descriptions.
NeedFiles(m) ==
    << [descr |-> "ELF executable", fn |-> m.executable] >>
    \o (IF m.sgx.present
        THEN << [descr |-> "SGX executable", fn |-> m.sgx.executable],
                [descr |-> "SGX signature", fn |-> m.sgx.signature] >>
        ELSE <<>>)

\* Variant: a named file may be empty.
NeedFileMissingNoLenCheck(b, v) == v.fn = ""

\* The first loop of Validate: whether a needed file is not named or is
\* missing or empty in Data.
NeedFileMissing(b, v) == v.fn = "" \/ BytesLen(DataAt(b, v.fn)) = 0

\* The second loop of Validate: whether a file of Data fails the digest
\* check.
DigestFails(b, fn) ==
    IF fn \notin DOMAIN b.manifest.digests
    THEN fn /= manifestName
    ELSE Hash(b.data[fn]) /= b.manifest.digests[fn]

ErrInvalidBundle == "runtime/bundle: invalid bundle"
\* (bnd *Bundle).Validate(): nil or an error.
Validate(b) ==
    IF \E i \in 1..Len(NeedFiles(b.manifest)) :
           NeedFileMissing(b, NeedFiles(b.manifest)[i])
    THEN ErrInvalidBundle
    ELSE IF \E fn \in DOMAIN b.data : DigestFails(b, fn)
         THEN ErrInvalidBundle
         ELSE NoErr

\* The bundles Validate is applied to.  Every file name is absent from Data
\* or holds one of a few contents, and is absent from Digests or has one of
\* a few digests; the manifest names its files or leaves a name empty.
Absent == [absent |-> TRUE]
AllNames == PlainNames \cup {manifestName}
SomeManifest == ManifestOf("runtime.elf", NoSGX, <<>>)
DataOptions(fn) ==
    CASE fn = "runtime.elf" ->
             {Absent, EmptyBytes, BytesOf(<<1>>), BytesOf(<<2>>)}
      [] fn = "runtime.sgxs" -> {Absent, EmptyBytes, BytesOf(<<1>>)}
      [] fn = "runtime.sig" -> {Absent, BytesOf(<<1>>)}
      [] OTHER -> {Absent, NilBytes, JsonMarshal(SomeManifest)}
DigestOptions(fn) ==
    CASE fn = "runtime.elf" -> {Absent, Hash(BytesOf(<<1>>)), Hash(EmptyBytes)}
      [] fn = "runtime.sgxs" -> {Absent, Hash(BytesOf(<<1>>))}
      [] fn = "runtime.sig" -> {Absent, Hash(BytesOf(<<1>>))}
      [] OTHER -> {Absent, Hash(JsonMarshal(SomeManifest)),
                   Hash(BytesOf(<<1>>))}
\* The map that holds choice[fn] for the names whose choice is not Absent.
MapOf(choice) ==
    [fn \in {n \in AllNames : choice[n] /= Absent} |-> choice[fn]]
DataMaps ==
    {MapOf(c) : c \in {f \in [AllNames -> UNION {DataOptions(n) : n \in AllNames}] :
                          \A n \in AllNames : f[n] \in DataOptions(n)}}
DigestMaps ==
    {MapOf(c) : c \in {f \in [AllNames -> UNION {DigestOptions(n) : n \in AllNames}] :
                          \A n \in AllNames : f[n] \in DigestOptions(n)}}
SGXSections ==
    {NoSGX, SGXOf("runtime.sgxs", "runtime.sig"), SGXOf("", "runtime.sig"),
     SGXOf("runtime.sgxs", "")}
ValidateBundles ==
    {BundleOf(ManifestOf(e, sgx, dg), d) :
        e \in {"", "runtime.elf"}, sgx \in SGXSections,
        dg \in DigestMaps, d \in DataMaps}

ValidateInit ==
    /\ ServiceIdle
    /\ SigIdle
    /\ bnd \in ValidateBundles
    /\ bundleFile = NoArchive
    /\ bundleRet = NoCall

\* A call of bnd.Validate().
CallValidate ==
    /\ bundleRet = NoCall
    /\ bundleRet' = [op |-> "Validate", err |-> Validate(bnd)]
    /\ UNCHANGED <<serviceVars, sigVars, bnd, bundleFile>>

ValidateNext == CallValidate

ValidateSpec == ValidateInit /\ [][ValidateNext]_vars

\* ---------------------------------------------------------------------------
\* C23: Validate returns nil exactly when (1) the manifest names an
\* executable, and with an SGX section also an SGX executable and an SGX
\* signature, and each named file is present and non-empty in Data, and (2)
\* every file in Data has a manifest digest equal to the hash of its
\* content, the manifest file alone being allowed to have no digest.
NamedAndPresent(fn) ==
    /\ fn /= ""
    /\ fn \in DOMAIN bnd.data
    /\ Len(bnd.data[fn].bytes) > 0

ManifestFilesPresent ==
    /\ NamedAndPresent(bnd.manifest.executable)
    /\ bnd.manifest.sgx.present =>
           /\ NamedAndPresent(bnd.manifest.sgx.executable)
           /\ NamedAndPresent(bnd.manifest.sgx.signature)

DigestsMatch ==
    \A fn \in DOMAIN bnd.data :
        \/ /\ fn \in DOMAIN bnd.manifest.digests
           /\ bnd.manifest.digests[fn] = Hash(bnd.data[fn])
        \/ /\ fn = manifestName
           /\ fn \notin DOMAIN bnd.manifest.digests

C23_ValidateExactly ==
    bundleRet.op = "Validate" =>
        (bundleRet.err = NoErr <=> (ManifestFilesPresent /\ DigestsMatch))

\* Validate accepted a bundle with an SGX section whose Data also holds the
\* manifest file without a digest.
C23_Witness ==
    /\ bundleRet.op = "Validate"
    /\ bundleRet.err = NoErr
    /\ bnd.manifest.sgx.present
    /\ manifestName \in DOMAIN bnd.data
    /\ manifestName \notin DOMAIN bnd.manifest.digests

\* Validate rejected a bundle whose digests all match because the named
\* executable is empty.
C23_WitnessEmpty ==
    /\ bundleRet.op = "Validate"
    /\ bundleRet.err /= NoErr
    /\ DigestsMatch
    /\ bnd.manifest.executable = "runtime.elf"
    /\ "runtime.elf" \in DOMAIN bnd.data
    /\ bnd.data["runtime.elf"] = EmptyBytes

\* ---------------------------------------------------------------------------
\* Package bundle: Add, Write, Open

\* m[k] = v on a map.
Put(m, k, v) == [x \in DOMAIN m \cup {k} |-> IF x = k THEN v ELSE m[x]]

ErrInvalidFilename == "runtime/bundle: invalid filename for add"

\* Variant: Add stores the file and leaves the digests alone.
AddNoDigest(b, fn, content) ==
    IF Dir(fn) /= "."
    THEN [bnd |-> b, err |-> ErrInvalidFilename]
    ELSE [bnd |-> [b EXCEPT !.data = Put(b.data, fn, CopyBytes(content))],
          err |-> NoErr]

\* (bnd *Bundle).Add(fn, b): the bundle afterwards and the error.
Add(b, fn, content) ==
    IF Dir(fn) /= "."
    THEN [bnd |-> b, err |-> ErrInvalidFilename]
    ELSE [bnd |-> [b EXCEPT
                     !.manifest.digests = Put(b.manifest.digests, fn, Hash(content)),
                     !.data = Put(b.data, fn, CopyBytes(content))],
          err |-> NoErr]

\* Arguments of Add.
AddNames == {"runtime.elf", "", "sub/file", manifestName}
AddContents == {NilBytes, BytesOf(<<1>>), BytesOf(<<1, 2>>)}

\* The bundles the program starts with: an empty one, a well-formed one, one
\* with a wrong digest, and well-formed ones whose Data has an entry under
\* the manifest file name, nil or as Open leaves it.
ElfManifest(digests) == ManifestOf("runtime.elf", NoSGX, digests)
ElfDigest(content) == [fn \in {"runtime.elf"} |-> Hash(content)]
ElfData(content) == [fn \in {"runtime.elf"} |-> content]
InitBundles ==
    {BundleOf(ElfManifest(<<>>), <<>>),
     BundleOf(ElfManifest(ElfDigest(BytesOf(<<1>>))), ElfData(BytesOf(<<1>>))),
     BundleOf(ElfManifest(ElfDigest(BytesOf(<<1, 2>>))), ElfData(BytesOf(<<1>>))),
     BundleOf(ElfManifest(ElfDigest(BytesOf(<<1>>))),
              Put(ElfData(BytesOf(<<1>>)), manifestName, NilBytes)),
     BundleOf(ElfManifest(ElfDigest(BytesOf(<<1>>))),
              Put(ElfData(BytesOf(<<1>>)), manifestName,
                  JsonMarshal(ElfManifest(ElfDigest(BytesOf(<<1>>))))))}

\* A call of bnd.Add(fn, b).
CallAdd ==
    \E fn \in AddNames, content \in AddContents :
        /\ bnd' = Add(bnd, fn, content).bnd
        /\ bundleRet' = [op |-> "Add", fn |-> fn, b |-> content,
                         err |-> Add(bnd, fn, content).err, before |-> bnd]
        /\ UNCHANGED <<serviceVars, sigVars, bundleFile>>

\* The file at the bundle's path: absent, something that is not a zip
\* archive, or an archive with its entries in order.
GarbageFile == [exists |-> TRUE, zip |-> FALSE, entries |-> <<>>]
ArchiveOf(entries) == [exists |-> TRUE, zip |-> TRUE, entries |-> entries]
\* An archive entry: its name, its stored content, and what is wrong with
\* it: nothing, it cannot be opened, its checksum is wrong, or its stream
\* ends one byte early.
EntryOf(name, b, damage) == [name |-> name, b |-> b, damage |-> damage]

\* The orders in which a range over the keys of a map can visit them.
Orders(S) ==
    {o \in [1..Cardinality(S) -> S] :
        \A i, j \in 1..Cardinality(S) : o[i] = o[j] => i = j}

ErrRefusing == "runtime/bundle: refusing to write malformed bundle"
ErrManifestEntry == "runtime/bundle: data contains manifest entry"
ErrWriteBundle == "runtime/bundle: failed to write bundle"

\* writeFiles of Write: the manifest, then the files of Data in the order
\* the range visits them.
WriteFiles(b, order) ==
    << EntryOf(manifestName, JsonMarshal(b.manifest), "none") >>
    \o [i \in 1..Len(order) |-> EntryOf(order[i], b.data[order[i]], "none")]

\* (bnd *Bundle).Write(fn) up to os.WriteFile: the archive built in memory
\* and the error.
Write(b, order) ==
    IF Validate(b) /= NoErr
    THEN [archive |-> NoArchive, err |-> ErrRefusing]
    ELSE IF ~DataAt(b, manifestName).nil
         THEN [archive |-> NoArchive, err |-> ErrManifestEntry]
         ELSE [archive |-> ArchiveOf(WriteFiles(b, order)), err |-> NoErr]

\* A call of bnd.Write(fn).  os.WriteFile may fail, and then leaves the
\* file as it was or truncated.
CallWrite ==
    \E order \in Orders(DOMAIN bnd.data), writeFails \in BOOLEAN :
        LET w == Write(bnd, order) IN
        /\ \/ /\ w.err /= NoErr
              /\ bundleFile' = bundleFile
              /\ bundleRet' = [op |-> "Write", err |-> w.err,
                               before |-> bundleFile]
           \/ /\ w.err = NoErr
              /\ ~writeFails
              /\ bundleFile' = w.archive
              /\ bundleRet' = [op |-> "Write", err |-> NoErr,
                               before |-> bundleFile]
           \/ /\ w.err = NoErr
              /\ writeFails
              /\ bundleFile' \in {bundleFile, GarbageFile}
              /\ bundleRet' = [op |-> "Write", err |-> ErrWriteBundle,
                               before |-> bundleFile]
        /\ UNCHANGED <<serviceVars, sigVars, bnd>>

ErrOpenBundle == "runtime/bundle: failed to open bundle"
ErrManifestName == "runtime/bundle: invalid manifest file name"
ErrSanitize == "runtime/bundle: failed to sanitize path"
ErrOpenEntry == "runtime/bundle: failed to open"
ErrMissingManifest == "runtime/bundle: missing manifest"
ErrParseManifest == "runtime/bundle: failed to parse manifest"

\* io.ReadAll(rd) on an opened entry: the bytes delivered and whether an
\* error came with them.
ReadAll(e) ==
    [b |-> IF e.damage = "truncated"
           THEN BytesOf(SubSeq(e.b.bytes, 1, Len(e.b.bytes) - 1))
           ELSE e.b,
     rdErr |-> e.damage \in {"crc", "truncated"}]

\* The end of Open: decode the manifest and validate the bundle.
OpenFinish(data) ==
    IF manifestName \notin DOMAIN data
    THEN [bnd |-> NoBundle, err |-> ErrMissingManifest]
    ELSE IF ~JsonParses(data[manifestName])
         THEN [bnd |-> NoBundle, err |-> ErrParseManifest]
         ELSE LET b == BundleOf(data[manifestName].json, data) IN
              IF Validate(b) /= NoErr
              THEN [bnd |-> NoBundle, err |-> Validate(b)]
              ELSE [bnd |-> b, err |-> NoErr]

\* The loop of Open over r.File from entry i on, with the data read so far.
\* The error of io.ReadAll is assigned to rdErr and the check reads err,
\* which is nil there.
RECURSIVE OpenLoop(_, _, _)
OpenLoop(entries, i, data) ==
    IF i > Len(entries)
    THEN OpenFinish(data)
    ELSE LET v == entries[i] IN
         IF i = 1 /\ v.name /= manifestName
         THEN [bnd |-> NoBundle, err |-> ErrManifestName]
         ELSE IF i /= 1 /\ Dir(v.name) /= "."
         THEN [bnd |-> NoBundle, err |-> ErrSanitize]
         ELSE IF v.damage = "open"
         THEN [bnd |-> NoBundle, err |-> ErrOpenEntry]
         ELSE OpenLoop(entries, i + 1, Put(data, v.name, ReadAll(v).b))

\* bundle.Open(fn): the bundle, if any, and the error.
Open(file) ==
    IF ~file.exists \/ ~file.zip
    THEN [bnd |-> NoBundle, err |-> ErrOpenBundle]
    ELSE OpenLoop(file.entries, 1, <<>>)

\* A call of bundle.Open(fn).
CallBundleOpen ==
    /\ bundleRet' = [op |-> "Open", err |-> Open(bundleFile).err,
                     bnd |-> Open(bundleFile).bnd]
    /\ UNCHANGED <<serviceVars, sigVars, bnd, bundleFile>>

\* The archives Open is applied to: up to three entries, each a manifest,
\* an executable or a file in a directory.
ManifestContents ==
    {JsonMarshal(ElfManifest(<<>>)),
     JsonMarshal(ElfManifest(ElfDigest(BytesOf(<<1>>)))),
     JsonMarshal(ElfManifest(ElfDigest(BytesOf(<<1, 2>>)))),
     BytesOf(<<9>>)}
Entries ==
    {EntryOf(manifestName, b, d) :
        b \in ManifestContents, d \in {"none", "open", "crc"}}
    \cup {EntryOf("runtime.elf", b, d) :
            b \in {BytesOf(<<1>>), BytesOf(<<1, 2>>)},
            d \in {"none", "open", "crc", "truncated"}}
    \cup {EntryOf("sub/file", BytesOf(<<1>>), "none")}
Archives ==
    {NoArchive, GarbageFile, ArchiveOf(<<>>)}
    \cup {ArchiveOf(<<e>>) : e \in Entries}
    \cup {ArchiveOf(<<e, f>>) : e \in Entries, f \in Entries}
    \cup {ArchiveOf(<<e, f, g>>) : e \in Entries, f \in Entries, g \in Entries}

ArchiveInit ==
    /\ ServiceIdle
    /\ SigIdle
    /\ bnd = NoBundle
    /\ bundleFile \in Archives
    /\ bundleRet = NoCall

ArchiveNext == CallBundleOpen

ArchiveSpec == ArchiveInit /\ [][ArchiveNext]_vars

BundleInit ==
    /\ ServiceIdle
    /\ SigIdle
    /\ bnd \in InitBundles
    /\ bundleFile = NoArchive
    /\ bundleRet = NoCall

BundleNext == CallAdd \/ CallWrite \/ CallBundleOpen

BundleSpec == BundleInit /\ [][BundleNext]_vars

\* ---------------------------------------------------------------------------
\* C24: Add(fn, b) with a directory component in fn returns an error and
\* leaves Data and Digests unchanged; otherwise it sets Data[fn] to a copy
\* of b and Digests[fn] to the hash of b and changes no other entry; and if
\* every file matched its digest before, every file matches after.
MatchesDigests(b) ==
    \A fn \in DOMAIN b.data :
        /\ fn \in DOMAIN b.manifest.digests
        /\ b.manifest.digests[fn] = Hash(b.data[fn])

C24_AddKeepsDigests ==
    bundleRet.op = "Add" =>
        LET before == bundleRet.before
            fn == bundleRet.fn
        IN /\ Dir(fn) /= "." =>
                /\ bundleRet.err /= NoErr
                /\ bnd = before
           /\ Dir(fn) = "." =>
                /\ bundleRet.err = NoErr
                /\ fn \in DOMAIN bnd.data
                /\ bnd.data[fn].bytes = bundleRet.b.bytes
                /\ bnd.data[fn].json = bundleRet.b.json
                /\ fn \in DOMAIN bnd.manifest.digests
                /\ bnd.manifest.digests[fn] = Hash(bundleRet.b)
                /\ DOMAIN bnd.data = DOMAIN before.data \cup {fn}
                /\ DOMAIN bnd.manifest.digests =
                       DOMAIN before.manifest.digests \cup {fn}
                /\ \A x \in DOMAIN before.data \ {fn} :
                       bnd.data[x] = before.data[x]
                /\ \A x \in DOMAIN before.manifest.digests \ {fn} :
                       bnd.manifest.digests[x] = before.manifest.digests[x]
                /\ bnd.manifest.executable = before.manifest.executable
                /\ bnd.manifest.sgx = before.manifest.sgx
           /\ MatchesDigests(before) => MatchesDigests(bnd)

\* Add overwrote the executable of a bundle whose digests matched with
\* other content.
C24_Witness ==
    /\ bundleRet.op = "Add"
    /\ bundleRet.err = NoErr
    /\ bundleRet.fn = "runtime.elf"
    /\ MatchesDigests(bundleRet.before)
    /\ "runtime.elf" \in DOMAIN bundleRet.before.data
    /\ bundleRet.before.data["runtime.elf"].bytes /= bundleRet.b.bytes

\* Add refused a name with a directory component on a bundle that holds
\* files.
C24_WitnessRefused ==
    /\ bundleRet.op = "Add"
    /\ bundleRet.err /= NoErr
    /\ bundleRet.fn = "sub/file"
    /\ DOMAIN bnd.data /= {}

C25_WriteRefusesNonNilEntry ==
    bundleRet.op = "Write" =>
        /\ (~(ManifestFilesPresent /\ DigestsMatch)
               \/ (manifestName \in DOMAIN bnd.data
                     /\ ~bnd.data[manifestName].nil)) =>
              /\ bundleRet.err /= NoErr
              /\ bundleFile = bundleRet.before
        /\ bundleRet.err = NoErr =>
              /\ bundleFile.exists
              /\ bundleFile.entries /= <<>>
              /\ bundleFile.entries[1].name = manifestName

\* Write succeeded on a bundle with two files.
C25_WitnessWritten ==
    /\ bundleRet.op = "Write"
    /\ bundleRet.err = NoErr
    /\ Len(bundleFile.entries) = 3

\* ---------------------------------------------------------------------------
\* C26: Open returns a bundle only if the first entry of the archive is the
\* manifest, no later entry has a directory component, every entry was
\* read completely, the manifest parses, and the bundle passes Validate;
\* otherwise it returns an error and no bundle.
EntriesWellPlaced ==
    /\ bundleFile.exists
    /\ bundleFile.zip
    /\ bundleFile.entries /= <<>>
    /\ bundleFile.entries[1].name = manifestName
    /\ \A i \in 2..Len(bundleFile.entries) :
           Dir(bundleFile.entries[i].name) = "."

C26_OpenOnlyWellFormed ==
    bundleRet.op = "Open" =>
        /\ bundleRet.err = NoErr =>
              /\ bundleRet.bnd /= NoBundle
              /\ EntriesWellPlaced
              /\ \A i \in 1..Len(bundleFile.entries) :
                     bundleFile.entries[i].damage = "none"
              /\ JsonParses(bundleFile.entries[1].b)
              /\ Validate(bundleRet.bnd) = NoErr
        /\ bundleRet.err /= NoErr => bundleRet.bnd = NoBundle

\* What Open does do: the entries it returns were all opened, but a read
\* that ended in an error still counts.
C26_OpenIgnoresReadErrors ==
    bundleRet.op = "Open" =>
        /\ bundleRet.err = NoErr =>
              /\ bundleRet.bnd /= NoBundle
              /\ EntriesWellPlaced
              /\ \A i \in 1..Len(bundleFile.entries) :
                     bundleFile.entries[i].damage /= "open"
              /\ JsonParses(bundleFile.entries[1].b)
              /\ Validate(bundleRet.bnd) = NoErr
        /\ bundleRet.err /= NoErr => bundleRet.bnd = NoBundle

\* Open returned a bundle with an executable.
C26_WitnessOpened ==
    /\ bundleRet.op = "Open"
    /\ bundleRet.err = NoErr
    /\ "runtime.elf" \in DOMAIN bundleRet.bnd.data

\* ---------------------------------------------------------------------------
\* C28: every DeliverCommand call carries a height greater than or equal to
\* the height given to the most recent DeliverBlock call of the worker.
C28_CommandHeightAtLeastBlock ==
    \A n \in 1..Len(last.calls) :
        last.calls[n].op = "DeliverCommand" =>
            last.calls[n].height >= lastBlockHeight

\* What does hold: a command carries the height of the item handled last,
\* which is the worker's height.
C28_CommandCarriesHeight ==
    \A n \in 1..Len(last.calls) :
        last.calls[n].op = "DeliverCommand" => last.calls[n].height = height

\* ---------------------------------------------------------------------------
\* C29: when a subscription is cancelled while events it forwarded are
\* still in its buffer, the loop, unless it has stopped, processes every one
\* of them before it observes the closure of the buffer and retires the
\* slot: at the closure step and in a retired slot the buffer is empty and
\* every forwarded event has been processed.
Drained(k) ==
    /\ subs[k].buffer = <<>>
    /\ subs[k].held = NoEvent
    /\ subs[k].taken = subs[k].sent

C29_BufferDrainedBeforeRetire ==
    /\ \A k \in DOMAIN subs :
           (pc /= "start" /\ sdPresent /\ cases[SlotOf(k)] = NilChan) =>
               Drained(k)
    /\ (last.closed /\ last.chosen > indexCommands) =>
           Drained(last.chosen - indexCommands)

\* A subscription was cancelled with two forwarded events in its buffer;
\* the loop processed both and then retired the slot.
C29_Witness ==
    /\ last.closed
    /\ last.chosen > indexCommands
    /\ LET k == last.chosen - indexCommands
       IN  /\ subs[k].closedWith = 2
           /\ subs[k].taken = 2
           /\ cases[SlotOf(k)] = NilChan

====
